---- MODULE Spec2Model ----
(***************************************************************************)
(* Lead-generation pipeline (Yaredt/CIDemoApp).                            *)
(*                                                                         *)
(* The specifications of this module:                                      *)
(*   SpecRL        BaseTool._check_rate_limit called by several asyncio    *)
(*                 tasks of one tool instance (src/tools/base_tool.py);    *)
(*   Spec          LeadGenerationWorkflow.execute driving                  *)
(*                 MasterCoordinator.execute and the three supporting      *)
(*                 agents (src/orchestration/workflow.py,                  *)
(*                 src/agents/coordinator.py, src/agents/supporting/*.py); *)
(*   SpecDedup     MasterCoordinator._deduplicate_leads on its own;        *)
(*   SpecValidate  ValidationAgent.execute on its own, with the target     *)
(*                 industries configured;                                  *)
(*   SpecRun       MasterCoordinator.execute from deduplication on, with   *)
(*                 the enrichment sources configured and nothing raising;  *)
(*   SpecRank      MasterCoordinator._score_and_rank_leads on its own;     *)
(*   SpecScore     MasterCoordinator._calculate_lead_score on one lead;    *)
(*   SpecTiming    TimingAgent.execute and the scoring that follows it;    *)
(*   SpecTool      WebSearchTool.search over the cache and rate limiter    *)
(*                 of BaseTool (src/tools/web_search.py);                  *)
(*   SpecRLFair    SpecRL with time passing and sleeps returning.          *)
(***************************************************************************)
EXTENDS Integers, Sequences, FiniteSets, TLC

VARIABLES
    \* ---- rate limiter (one BaseTool instance) ----
    clock,          \* datetime.utcnow(), in seconds
    request_times,  \* self.request_times
    task,           \* per asyncio task: position in _check_rate_limit and its locals
    released,       \* history: the time at which each call returned to its caller
    \* ---- adapter (WebSearchTool.search on that instance) ----
    api_key,        \* whether self.api_key is set
    cache,          \* self.cache, a cachetools.TTLCache: per key, the value and its expiry
    stores,         \* history: per key, the value last stored and the time it was stored
    reply,          \* history: what the search() that returned last gave its caller
    upstream,       \* history: HTTP requests sent to the search service
    \* ---- pipeline ----
    agents,         \* which supporting agents the coordinator was constructed with
    config,         \* the validation agent's config.custom_config, as __init__ read it
    faults,         \* history: exceptions and failed results the run has met so far
    prod,           \* per industry agent: state of its execute() task and its result
    lead,           \* the heap of Lead objects (mutated in place by every stage)
    pc,             \* position of MasterCoordinator.execute
    lists,          \* the coordinator's locals raw_leads .. scored_leads
    st,             \* locals of the running supporting agent's execute()
    pre,            \* history: the heap as it was when the current stage was entered
    work,           \* history: per stage and lead, the per-lead unit of work: "none",
                    \* "running", then "done" (it returned) or "raised"
    results,        \* per supporting agent: the AgentExecutionResult its execute returned
    coord_result,   \* AgentExecutionResult returned by MasterCoordinator.execute
    wfpc,           \* position of LeadGenerationWorkflow.execute
    stored,         \* ids upserted into the container by LeadStorage.store_lead
    wf_result,      \* AgentExecutionResult returned by LeadGenerationWorkflow.execute
    escaped         \* an exception propagated to the caller of execute

toolvars == <<api_key, cache, stores, reply, upstream>>
rlvars == <<clock, request_times, task, released, toolvars>>
plvars == <<agents, config, faults, prod, lead, pc, lists, st, pre, work, results, coord_result, wfpc,
            stored, wf_result, escaped>>
vars == <<clock, request_times, task, released, api_key, cache, stores, reply, upstream, agents, config, faults, prod, lead, pc, lists, st, pre,
          work, results, coord_result, wfpc, stored, wf_result, escaped>>

None == "none"

(***************************************************************************)
(* Generic helpers                                                         *)
(***************************************************************************)
RECURSIVE SeqMin(_)
SeqMin(s) ==
    IF Len(s) = 1 THEN s[1]
    ELSE LET m == SeqMin(Tail(s)) IN IF s[1] < m THEN s[1] ELSE m

Range(s) == {s[i] : i \in DOMAIN s}

(***************************************************************************)
(* Rate limiter: BaseTool._check_rate_limit                                *)
(***************************************************************************)
Window == 60        \* timedelta(minutes=1) / the literal 60 of wait_seconds
RateLimit == 2      \* self.rate_limit of the modelled tool instance
NumTasks == 2       \* asyncio tasks sharing the tool instance
MaxCalls == 6       \* calls to _check_rate_limit in one behaviour
TickStep == 30      \* granularity of the clock
MaxTime == 120      \* the clock stops here

Tasks == 1..NumTasks

\* line 61: self.request_times = [t for t in self.request_times if t > one_minute_ago]
Prune(times, now) == SelectSeq(times, LAMBDA t : t > now - Window)

\* lines 66-67: wait_seconds = 60 - (now - oldest_request)
WaitSeconds(times, now) == Window - (now - SeqMin(times))

\* line 77: the timestamp appended for a call that entered at `now` and is
\* released at `rel` (the code appends the `now` it read on entry)
RecordedTime(now, rel) == now

\* the search keys of the modelled run: f"search_{query}_{num_results}"
Queries == {"search_acme hiring CTO_3", "search_acme new CTO_5"}

\* a task that is not inside any call of the tool
NoCall == [pc |-> "idle", now |-> 0, wake |-> 0, query |-> None]

LimiterInit ==
    /\ clock = 0
    /\ request_times = <<>>
    /\ task = [t \in Tasks |-> NoCall]
    /\ released = <<>>

\* BaseTool.__init__ lines 46-51 and what no search has touched yet
AdapterInit ==
    /\ cache = [q \in Queries |-> <<>>]
    /\ stores = [q \in Queries |-> <<>>]
    /\ reply = [kind |-> None, query |-> None, resp |-> None, value |-> <<>>]
    /\ upstream = 0

RLInit == LimiterInit /\ AdapterInit /\ api_key = TRUE

CallsMade == Len(released) + Cardinality({t \in Tasks : task[t].pc = "sleeping"})

\* where _check_rate_limit returns to: its caller is done (a bare call), or search()
\* goes on to its HTTP request for the key q
AfterLimit(q) == IF q = None THEN NoCall ELSE [NoCall EXCEPT !.pc = "request", !.query = q]

\* lines 57-77 up to the await, called for the key q (None: a bare call): a call that
\* finds capacity records itself and returns
Admit(t, q) ==
    /\ CallsMade < MaxCalls
    /\ LET now == clock
           kept == Prune(request_times, now)
       IN /\ ~(Len(kept) >= RateLimit /\ WaitSeconds(kept, now) > 0)
          /\ request_times' = Append(kept, RecordedTime(now, clock))
          /\ released' = Append(released, clock)
    /\ task' = [task EXCEPT ![t] = AfterLimit(q)]
    /\ UNCHANGED clock

\* lines 57-74, called for the key q: a call that finds the window full suspends in
\* asyncio.sleep
Suspend(t, q) ==
    /\ CallsMade < MaxCalls
    /\ LET now == clock
           kept == Prune(request_times, now)
       IN /\ Len(kept) >= RateLimit
          /\ WaitSeconds(kept, now) > 0
          /\ request_times' = kept
          /\ task' = [task EXCEPT ![t] = [pc |-> "sleeping", now |-> now,
                                          wake |-> clock + WaitSeconds(kept, now),
                                          query |-> q]]
    /\ UNCHANGED <<clock, released>>

\* _check_rate_limit called on its own and finding capacity
CallProceed(t) ==
    /\ task[t].pc = "idle"
    /\ Admit(t, None)
    /\ UNCHANGED <<toolvars, plvars>>

\* Variant of CallSleep: a call that finds the window full is turned away with an error
CallSleepRejecting(t) ==
    /\ task[t].pc = "idle"
    /\ CallsMade < MaxCalls
    /\ LET kept == Prune(request_times, clock)
       IN /\ Len(kept) >= RateLimit
          /\ WaitSeconds(kept, clock) > 0
          /\ request_times' = kept
    /\ task' = [task EXCEPT ![t] = [NoCall EXCEPT !.pc = "rejected"]]
    /\ UNCHANGED <<clock, released, toolvars, plvars>>

\* _check_rate_limit called on its own and finding the window full
CallSleep(t) ==
    /\ task[t].pc = "idle"
    /\ Suspend(t, None)
    /\ UNCHANGED <<toolvars, plvars>>

\* line 77 after the sleep: the call records itself and returns, without re-checking
Wake(t) ==
    /\ task[t].pc = "sleeping"
    /\ clock >= task[t].wake
    /\ request_times' = Append(request_times, RecordedTime(task[t].now, clock))
    /\ released' = Append(released, clock)
    /\ task' = [task EXCEPT ![t] = AfterLimit(task[t].query)]
    /\ UNCHANGED <<clock, toolvars, plvars>>

\* time passes, until MaxTime and for as long as a task sleeps towards its wake time
Tick ==
    /\ clock < MaxTime \/ \E t \in Tasks : task[t].pc = "sleeping" /\ clock < task[t].wake
    /\ clock' = clock + TickStep
    /\ UNCHANGED <<request_times, task, released, toolvars, plvars>>


(***************************************************************************)
(* Data model: src/agents/models.py                                       *)
(***************************************************************************)
\* LeadStatus, in pipeline order; QUALIFIED and DISQUALIFIED share the last rank
StatusRank(s) ==
    CASE s = "new" -> 0
      [] s = "enriching" -> 1
      [] s = "validating" -> 2
      [] s = "qualified" -> 3
      [] s = "disqualified" -> 3

\* Industry enum values the coordinator scores as target industries
TargetIndustries == {"banking", "insurance", "energy", "government"}

\* A company name is modelled by its canonical (lower-cased, trimmed) text and by
\* whether the raw string differs from it in letter case or surrounding blanks.
Name(text, upper, padded) == [text |-> text, upper |-> upper, padded |-> padded]
Lower(n) == [n EXCEPT !.upper = FALSE]
Strip(n) == [n EXCEPT !.padded = FALSE]

\* The string a name stands for: blanks around it if padded, "^" marking upper-case
\* letters, so that two names are the same string exactly when they are equal here
Spelling(n) ==
    (IF n.padded THEN " " ELSE "") \o (IF n.upper THEN "^" ELSE "") \o n.text
        \o (IF n.padded THEN " " ELSE "")

\* TechnologyIndicator(): every field at its default
NoIndicators ==
    [legacy_systems |-> FALSE, cloud_migration_signals |-> FALSE,
     digital_transformation_initiatives |-> 0]

\* Company(...): the fields the pipeline reads. website is whether one is given,
\* digital_transformation_initiatives the length of that list.
Company(name, industry, fdic, sam, duns, employees, size, website, technology) ==
    [name |-> name, industry |-> industry, fdic_cert_number |-> fdic, sam_uei |-> sam,
     duns_number |-> duns, employee_count |-> employees, size |-> size,
     website |-> website, technology_indicators |-> technology]

\* Companies the industry agents can report (Company objects as built by
\* _create_lead_from_bank and its siblings). An Optional[int] or Optional[float]
\* field is <<>> for None and <<v>> for the value v.
Companies ==
    { Company(Name("test bank a", TRUE, FALSE), "banking", "12345", None, None,
              <<1000>>, None, TRUE, <<>>),
      Company(Name("acme insurance", TRUE, TRUE), "unknown", None, None, None,
              <<>>, "Small", FALSE, <<NoIndicators>>) }

\* Lead(...) as constructed by an industry agent: status NEW, nothing processed
NewLead(company, sources, signals, tags) ==
    [company |-> company, status |-> "new", data_sources |-> sources,
     buying_signals |-> signals, tags |-> tags, is_enriched |-> FALSE, is_validated |-> FALSE,
     validation_notes |-> <<>>, timing_score |-> <<>>, urgency |-> None,
     recommended_action |-> None, score |-> <<>>]

(***************************************************************************)
(* Industry agents: src/agents/industry_specific/*.py                      *)
(***************************************************************************)
Producers == {"banking_agent", "insurance_agent"}
MaxPerProducer == 1     \* leads one industry agent reports in a run

\* gather() keeps the order of self.industry_agents
ProducerOrder == <<"banking_agent", "insurance_agent">>

\* data_sources given to a new lead by each agent
SourceOf(p) == IF p = "banking_agent" THEN {"fdic"} ELSE {"web_search"}

\* buying_signals given to a new lead by each agent
SignalsOf(p) == IF p = "banking_agent" THEN <<>> ELSE <<"technology_initiative">>

\* tags given to a new lead by each agent
TagsOf(p) == IF p = "banking_agent" THEN {"banking", "fdic"} ELSE {"insurance"}

LeadIds == Producers \X (1..MaxPerProducer)


(***************************************************************************)
(* Deduplication: MasterCoordinator._deduplicate_leads                     *)
(***************************************************************************)
\* `if lead.company.fdic_cert_number:` -- None and the empty string are both skipped
Truthy(x) == x # None /\ x # ""

\* f"fdic_{...}" and its siblings: a source tag followed by the identifier
IdKey(prefix, id) == prefix \o id

\* Variant of DedupKey: the name is used whenever the company has one
DedupKeyNameFirst(c) ==
    IF c.name.text # "" THEN Spelling(Strip(Lower(c.name)))
    ELSE IF Truthy(c.fdic_cert_number) THEN IdKey("fdic_", c.fdic_cert_number)
    ELSE IF Truthy(c.sam_uei) THEN IdKey("sam_", c.sam_uei)
    ELSE IdKey("duns_", c.duns_number)

\* lines 263-271: the key; an identifier that is set wins over the name, in the
\* order fdic, sam, duns; the name is lower-cased, then trimmed
DedupKey(c) ==
    IF Truthy(c.fdic_cert_number) THEN IdKey("fdic_", c.fdic_cert_number)
    ELSE IF Truthy(c.sam_uei) THEN IdKey("sam_", c.sam_uei)
    ELSE IF Truthy(c.duns_number) THEN IdKey("duns_", c.duns_number)
    ELSE Spelling(Strip(Lower(c.name)))

\* list(set(a + b)) of BuyingSignal values: the distinct values, listed in one order
SignalOrder == <<"job_posting", "recent_funding", "executive_change", "regulatory_deadline",
                 "partnership_announcement", "technology_initiative", "rfp_published">>
SignalList(set) == SelectSeq(SignalOrder, LAMBDA x : x \in set)

\* Variant of MergeInto: the duplicate's lists replace the first-seen lead's
MergeOverwriting(existing, dup) ==
    [existing EXCEPT !.data_sources = dup.data_sources,
                     !.buying_signals = dup.buying_signals,
                     !.tags = dup.tags]

\* lines 277-280: merge a duplicate into the first-seen lead
MergeInto(existing, dup) ==
    [existing EXCEPT
        !.data_sources = existing.data_sources \cup dup.data_sources,
        !.buying_signals = SignalList(Range(existing.buying_signals)
                                      \cup Range(dup.buying_signals)),
        !.tags = existing.tags \cup dup.tags]

\* Variant of DedupFold: the key of a duplicate replaces the entry, so the lead seen
\* last takes the place of the one seen first
RECURSIVE DedupFoldLastWins(_, _)
DedupFoldLastWins(leads, acc) ==
    IF leads = <<>> THEN acc
    ELSE LET l == Head(leads)
             key == DedupKey(acc.heap[l].company)
             same == {i \in DOMAIN acc.unique :
                         DedupKey(acc.heap[acc.unique[i]].company) = key}
         IN IF same # {}
            THEN LET k == CHOOSE i \in same : TRUE
                 IN DedupFoldLastWins(Tail(leads),
                        [unique |-> SelectSeq(acc.unique, LAMBDA x : x # acc.unique[k])
                                        \o <<l>>,
                         heap |-> [acc.heap EXCEPT
                                      ![l] = MergeInto(acc.heap[l], acc.heap[acc.unique[k]])]])
            ELSE DedupFoldLastWins(Tail(leads),
                                   [acc EXCEPT !.unique = Append(acc.unique, l)])

\* Variant of DedupFold: after a duplicate the next lead is taken over unexamined, as
\* when the list is shortened while it is being traversed
RECURSIVE DedupFoldSkipping(_, _)
DedupFoldSkipping(leads, acc) ==
    IF leads = <<>> THEN acc
    ELSE LET l == Head(leads)
             key == DedupKey(acc.heap[l].company)
             same == {i \in DOMAIN acc.unique :
                         DedupKey(acc.heap[acc.unique[i]].company) = key}
         IN IF same # {}
            THEN LET e == acc.unique[CHOOSE i \in same : TRUE]
                     merged == [acc EXCEPT !.heap[e] = MergeInto(acc.heap[e], acc.heap[l])]
                     rest == Tail(leads)
                 IN IF rest = <<>> THEN merged
                    ELSE DedupFoldSkipping(Tail(rest),
                             [merged EXCEPT !.unique = Append(merged.unique, Head(rest))])
            ELSE DedupFoldSkipping(Tail(leads),
                                   [acc EXCEPT !.unique = Append(acc.unique, l)])

\* lines 261-284: one pass over the list; acc.unique is list(unique_leads.values()),
\* acc.heap the Lead objects after the merges done so far
RECURSIVE DedupFold(_, _)
DedupFold(leads, acc) ==
    IF leads = <<>> THEN acc
    ELSE LET l == Head(leads)
             key == DedupKey(acc.heap[l].company)
             same == {i \in DOMAIN acc.unique :
                         DedupKey(acc.heap[acc.unique[i]].company) = key}
         IN IF same # {}
            THEN LET e == acc.unique[CHOOSE i \in same : TRUE]
                 IN DedupFold(Tail(leads),
                              [acc EXCEPT !.heap[e] = MergeInto(acc.heap[e], acc.heap[l])])
            ELSE DedupFold(Tail(leads), [acc EXCEPT !.unique = Append(acc.unique, l)])

(***************************************************************************)
(* Validation checks: ValidationAgent._check_*                             *)
(***************************************************************************)
MinEmployeeCount == 100    \* config.custom_config.get("min_employee_count", 100)

\* lines 37-41: the criteria __init__ takes from a configuration that sets nothing;
\* enrichment_agent.py lines 37-39: without API keys the enrichment tools find nothing
DefaultConfig == [target_industries |-> TargetIndustries, enrichment_keys |-> FALSE]

\* lines 177-185
CheckIndustryFit(c) == c.industry \in config.target_industries \/ c.industry = "unknown"

\* What can happen to one call of WebSearchTool.search: no API key is configured, the
\* request fails (connection, HTTP status, timeout), or the service answers with no
\* result, with a snippet holding a negative keyword, with harmless snippets, or with
\* a result that has no snippet
SearchFailures == {"transport_error", "bad_status", "timeout"}
SearchCalls ==
    {"no_api_key", "no_results", "negative", "clean", "null_snippet"} \cup SearchFailures

\* web_search.py lines 53-132: the list search() returns, as the snippets of its
\* results; every exception is caught and answered with the empty list (lines 127-132)
WebSearch(call) ==
    CASE call = "no_api_key" -> <<>>
      [] call \in SearchFailures -> <<>>
      [] call = "no_results" -> <<>>
      [] call = "negative" -> <<"filed for bankruptcy">>
      [] call = "clean" -> <<"a regional bank">>
      [] call = "null_snippet" -> <<"a regional bank", None>>

NegativeSnippets == {"filed for bankruptcy"}

\* validation_agent.py lines 197-220 up to the return: "none" (line 202, no results),
\* "error" (line 207, joining a snippet that is None raises TypeError into the except
\* clause of line 217), "negative" (line 210), "ok"
LegitimacyOutcome(found) ==
    IF found = <<>> THEN "none"
    ELSE IF None \in Range(found) THEN "error"
    ELSE IF Range(found) \cap NegativeSnippets # {} THEN "negative"
    ELSE "ok"

\* lines 197-220 on the outcome reached: only a clean result and the except clause
\* return True
CheckCompanyLegitimacy(res) == res \in {"ok", "error"}
SearchOutcomes == {"none", "negative", "ok", "error"}

\* lines 203 and 211: the note the legitimacy check appends
LegitimacyNotes(res) ==
    CASE res = "none" -> << <<"note", "No web presence found">> >>
      [] res = "negative" -> << <<"note", "Negative signals found">> >>
      [] OTHER -> <<>>

\* lines 233-249
CheckSizeFit(c) ==
    IF c.employee_count # <<>> /\ c.employee_count # <<0>>
    THEN c.employee_count[1] >= MinEmployeeCount
    ELSE TRUE

\* lines 237-239: the note the size check appends
SizeNotes(c) ==
    IF c.employee_count # <<>> /\ c.employee_count # <<0>>
          /\ c.employee_count[1] < MinEmployeeCount
    THEN << <<"note", "Below minimum employee count">> >>
    ELSE <<>>

\* lines 261-274: every branch returns True
CheckTechnologyOpportunity(c) == TRUE

\* lines 138-143
Checks(c, res) ==
    [industry_fit |-> CheckIndustryFit(c),
     company_legitimacy |-> CheckCompanyLegitimacy(res),
     size_fit |-> CheckSizeFit(c),
     technology_opportunity |-> CheckTechnologyOpportunity(c)]

PassFail(b) == IF b THEN "PASS" ELSE "FAIL"

\* lines 146-149: validation_notes is assigned the list of check outcomes
CheckNotes(checks) ==
    << <<"industry_fit", PassFail(checks.industry_fit)>>,
       <<"company_legitimacy", PassFail(checks.company_legitimacy)>>,
       <<"size_fit", PassFail(checks.size_fit)>>,
       <<"technology_opportunity", PassFail(checks.technology_opportunity)>> >>

\* Variant of IsValid: a lead is valid only if all four checks pass
IsValidAll(checks) ==
    /\ checks.industry_fit /\ checks.company_legitimacy
    /\ checks.size_fit /\ checks.technology_opportunity

\* lines 152-156
IsValid(checks) == checks.industry_fit /\ checks.company_legitimacy

\* lines 75-80: the status execute() assigns from validate()'s return value
StatusFor(is_valid) == IF is_valid THEN "qualified" ELSE "disqualified"


(***************************************************************************)
(* Timing analysis: TimingAgent                                            *)
(***************************************************************************)
\* lines 39-47: self.signal_weights
TimingWeight(sig) ==
    CASE sig = "rfp_published" -> 30
      [] sig = "job_posting" -> 20
      [] sig = "executive_change" -> 15
      [] sig = "regulatory_deadline" -> 25
      [] sig = "recent_funding" -> 15
      [] sig = "technology_initiative" -> 10
      [] sig = "partnership_announcement" -> 10
      [] OTHER -> 5

\* lines 228-230: total_score += weight, for each signal of the list
RECURSIVE TimingTotal(_)
TimingTotal(s) == IF s = <<>> THEN 0 ELSE TimingWeight(Head(s)) + TimingTotal(Tail(s))

\* Variant of AddSignal: a detector appends its signal whenever it finds evidence
AddSignalAlways(signals, sig) == Append(signals, sig)

\* lines 158-159 and 190-191: a detector appends its signal only if it is absent
AddSignal(signals, sig) == IF sig \in Range(signals) THEN signals ELSE Append(signals, sig)

\* lines 125-126: the signals after the job-posting and executive-change detectors,
\* `found` being the detectors whose search produced evidence
Detect(signals, found) ==
    LET s1 == IF "job_posting" \in found THEN AddSignal(signals, "job_posting")
              ELSE signals
    IN IF "executive_change" \in found THEN AddSignal(s1, "executive_change") ELSE s1

\* lines 225-237, in fifths of a point (the factor 1.2 is 6/5)
CalculateTimingScore(signals) ==
    LET total == TimingTotal(signals)
        boosted == IF Len(signals) > 3 THEN 6 * total ELSE 5 * total
    IN IF boosted < 500 THEN boosted ELSE 500

\* lines 249-256 on a score in fifths of a point
GetUrgencyLevel(score5) ==
    IF score5 >= 350 THEN "VERY HIGH"
    ELSE IF score5 >= 250 THEN "HIGH"
    ELSE IF score5 >= 150 THEN "MEDIUM" ELSE "LOW"

\* lines 268-275 on a score in fifths of a point
GetRecommendedAction(score5) ==
    IF score5 >= 350 THEN "IMMEDIATE OUTREACH - High urgency signals detected"
    ELSE IF score5 >= 250 THEN "PRIORITIZE - Strong buying signals present"
    ELSE IF score5 >= 150 THEN "ENGAGE - Moderate opportunity window"
    ELSE "NURTURE - Monitor for stronger signals"

(***************************************************************************)
(* Scoring and ranking: MasterCoordinator._calculate_lead_score            *)
(***************************************************************************)
\* lines 413-420
ScoreIndustryFit(c) ==
    IF c.industry \in TargetIndustries THEN 100
    ELSE IF c.industry = "unknown" THEN 50 ELSE 25

\* lines 424-445
ScoreSizeFit(c) ==
    IF c.employee_count # <<>> /\ c.employee_count # <<0>>
    THEN LET n == c.employee_count[1]
         IN IF n >= 5000 THEN 100 ELSE IF n >= 1000 THEN 80
            ELSE IF n >= 500 THEN 60 ELSE IF n >= 100 THEN 40 ELSE 20
    ELSE IF c.size # None /\ c.size # ""
         THEN CASE c.size = "Enterprise" -> 100
                [] c.size = "Large" -> 80
                [] c.size = "Medium" -> 60
                [] c.size = "Small" -> 30
                [] OTHER -> 50
         ELSE 50

\* what _score_technology_fit adds up before it caps the sum (lines 449-466);
\* digital_transformation_initiatives is the length of the list
TechnologyPoints(c) ==
    IF c.technology_indicators = <<>> THEN 50
    ELSE LET tech == c.technology_indicators[1]
             n == tech.digital_transformation_initiatives
         IN 50 + (IF tech.legacy_systems THEN 30 ELSE 0)
               + (IF tech.cloud_migration_signals THEN 15 ELSE 0)
               + 10 * (IF n < 3 THEN n ELSE 3)

\* Variant of ScoreTechnologyFit: the sum is returned as it is
ScoreTechnologyFitUncapped(c) == TechnologyPoints(c)

\* lines 447-468: min(score, 100.0)
ScoreTechnologyFit(c) == IF TechnologyPoints(c) < 100 THEN TechnologyPoints(c) ELSE 100

\* lines 476-484 and 488: signal_weights.get(signal.value.upper(), 5)
IntentWeight(sig) ==
    CASE sig = "rfp_published" -> 30
      [] sig = "regulatory_deadline" -> 25
      [] sig = "job_posting" -> 20
      [] sig = "executive_change" -> 15
      [] sig = "recent_funding" -> 15
      [] sig = "technology_initiative" -> 10
      [] sig = "partnership_announcement" -> 10
      [] OTHER -> 5

\* lines 486-489: total_score += weight, for each signal of the list
RECURSIVE IntentTotal(_)
IntentTotal(s) == IF s = <<>> THEN 0 ELSE IntentWeight(Head(s)) + IntentTotal(Tail(s))

\* Variant of ScoreIntent: two signals are enough for the 1.2 boost
ScoreIntentBoostingPairs(signals) ==
    IF signals = <<>> THEN 150
    ELSE LET total == IntentTotal(signals)
             boosted == IF Len(signals) > 1 THEN 6 * total ELSE 5 * total
         IN IF boosted < 500 THEN boosted ELSE 500

\* lines 472-495, in fifths of a point
ScoreIntent(signals) ==
    IF signals = <<>> THEN 150
    ELSE LET total == IntentTotal(signals)
             boosted == IF Len(signals) > 2 THEN 6 * total ELSE 5 * total
         IN IF boosted < 500 THEN boosted ELSE 500

\* round(x, 2) of x = n/3 hundredths: thirds are never halfway between two hundredths
RoundThirds(n) == (n + 1) \div 3

\* lines 373-409. Scores are kept in hundredths of a point; fit is (a + b + c)/3 and
\* overall is 0.40 fit + 0.35 intent + 0.25 timing, with intent and timing in fifths.
\* the fields of LeadScore that are computed (models.py lines 129-138)
ScoreFields ==
    {"overall_score", "fit_score", "intent_score", "timing_score",
     "industry_fit", "size_fit", "technology_fit", "budget_likelihood"}

\* Variant of CalculateLeadScore: the three parts weigh the same in overall_score
CalculateLeadScoreEqualWeights(l) ==
    LET industry == ScoreIndustryFit(l.company)
        size == ScoreSizeFit(l.company)
        technology == ScoreTechnologyFit(l.company)
        fit3 == industry + size + technology
        intent5 == ScoreIntent(l.buying_signals)
        timing5 == IF l.timing_score = <<>> THEN 250 ELSE l.timing_score[1]
    IN [overall_score |-> RoundThirds((100 * fit3 + 60 * intent5 + 60 * timing5) \div 3),
        fit_score |-> RoundThirds(100 * fit3),
        intent_score |-> 20 * intent5,
        timing_score |-> 20 * timing5,
        industry_fit |-> 100 * industry,
        size_fit |-> 100 * size,
        technology_fit |-> 100 * technology,
        budget_likelihood |-> 50 * size + 10 * intent5]

\* lines 373-409. Scores are kept in hundredths of a point; fit is (a + b + c)/3 and
\* overall is 0.40 fit + 0.35 intent + 0.25 timing, with intent and timing in fifths;
\* budget_likelihood is (size_fit + intent_score)/2.
CalculateLeadScore(l) ==
    LET industry == ScoreIndustryFit(l.company)
        size == ScoreSizeFit(l.company)
        technology == ScoreTechnologyFit(l.company)
        fit3 == industry + size + technology
        intent5 == ScoreIntent(l.buying_signals)
        timing5 == IF l.timing_score = <<>> THEN 250 ELSE l.timing_score[1]
    IN [overall_score |-> RoundThirds(40 * fit3 + 21 * intent5 + 15 * timing5),
        fit_score |-> RoundThirds(100 * fit3),
        intent_score |-> 20 * intent5,
        timing_score |-> 20 * timing5,
        industry_fit |-> 100 * industry,
        size_fit |-> 100 * size,
        technology_fit |-> 100 * technology,
        budget_likelihood |-> 50 * size + 10 * intent5]

\* Field(..., ge=0, le=100) of LeadScore
ScoreInRange(sc) == \A f \in ScoreFields : sc[f] >= 0 /\ sc[f] <= 10000

\* line 351: the sort key
SortKey(l) == IF l.score # <<>> THEN l.score[1].overall_score ELSE 0

\* Variant of RankInsert: a lead goes before the leads already placed with its key
RankInsertBeforeEqual(heap, ranked, x) ==
    LET before == {i \in DOMAIN ranked : SortKey(heap[ranked[i]]) > SortKey(heap[x])}
        n == Cardinality(before)
    IN SubSeq(ranked, 1, n) \o <<x>> \o SubSeq(ranked, n + 1, Len(ranked))

\* sorted(leads, key=..., reverse=True): stable, so a lead goes after every lead
\* already placed whose key is greater than or equal to its own
RankInsert(heap, ranked, x) ==
    LET before == {i \in DOMAIN ranked : SortKey(heap[ranked[i]]) >= SortKey(heap[x])}
        n == Cardinality(before)
    IN SubSeq(ranked, 1, n) \o <<x>> \o SubSeq(ranked, n + 1, Len(ranked))

RECURSIVE Rank(_, _, _)
Rank(heap, leads, ranked) ==
    IF leads = <<>> THEN ranked
    ELSE Rank(heap, Tail(leads), RankInsert(heap, ranked, Head(leads)))


(***************************************************************************)
(* The pipeline: MasterCoordinator.execute and the supporting agents       *)
(***************************************************************************)
Stages == {"enrichment", "validation", "timing"}
MaxFaults == 3      \* exceptions and failed results met in one run

\* AgentExecutionResult
Result(success, leads, error) ==
    [returned |-> TRUE, success |-> success, leads_found |-> leads, error |-> error]
NoResult == [returned |-> FALSE, success |-> FALSE, leads_found |-> <<>>, error |-> None]

\* coordinator.py lines 154, 159, 164: the list each stage is given
InputOf(stage) ==
    CASE stage = "enrichment" -> lists.unique_leads
      [] stage = "validation" -> lists.enriched_leads
      [] stage = "timing" -> lists.validated_leads

\* coordinator.py lines 154, 159, 164: the local each stage's list is bound to
OutputOf(stage) ==
    CASE stage = "enrichment" -> "enriched_leads"
      [] stage = "validation" -> "validated_leads"
      [] stage = "timing" -> "timed_leads"

\* coordinator.py lines 152-169: the phase that follows each stage
PhaseAfter(stage) ==
    CASE stage = "enrichment" -> "validation"
      [] stage = "validation" -> "timing"
      [] stage = "timing" -> "scoring"

\* Variant of StageLeads: the stage's own list is used even when it reports failure
StageLeadsOfResult(result, leads) == result.leads_found

\* coordinator.py lines 300, 316, 332: result.leads_found if result.success else leads
StageLeads(result, leads) == IF result.success THEN result.leads_found ELSE leads

\* coordinator.py lines 204-217: the except clause of MasterCoordinator.execute
CoordinatorCatch == [result |-> Result(FALSE, <<>>, "error"), escaped |-> FALSE]

\* Variant of WorkflowCatch: the exception is not caught and reaches the caller
WorkflowRethrow == [result |-> NoResult, escaped |-> TRUE]

\* workflow.py lines 131-141: the except clause of LeadGenerationWorkflow.execute
WorkflowCatch == [result |-> Result(FALSE, <<>>, "error"), escaped |-> FALSE]

Idle == [stage |-> None, leads |-> <<>>, i |-> 0, out |-> <<>>, dis |-> <<>>,
         unit |-> "idle", is_valid |-> FALSE, search |-> None]

\* one more exception or failed result, within the bound of the run
Fault == faults < MaxFaults /\ faults' = faults + 1

PLInit ==
    /\ agents \in SUBSET Stages
    /\ config = DefaultConfig
    /\ faults = 0
    /\ prod = [p \in Producers |-> [state |-> "running", leads_found |-> <<>>, rank |-> 0]]
    /\ lead = [id \in {} |-> NewLead(CHOOSE c \in Companies : TRUE, {}, <<>>, {})]
    /\ pc = "search"
    /\ lists = [raw_leads |-> <<>>, unique_leads |-> <<>>, enriched_leads |-> <<>>,
                validated_leads |-> <<>>, timed_leads |-> <<>>, scored_leads |-> <<>>]
    /\ st = Idle
    /\ pre = lead
    /\ work = [s \in Stages |-> [id \in LeadIds |-> "none"]]
    /\ results = [s \in Stages |-> NoResult]
    /\ coord_result = NoResult
    /\ wfpc = "coordinator"
    /\ stored = {}
    /\ wf_result = NoResult
    /\ escaped = FALSE

(* ---- Phase 1: asyncio.gather over the industry agents ---- *)

\* history kept until deduplication: the place of a finishing execute() among the
\* industry agents' tasks, in the order they finish
NextRank == Cardinality({q \in Producers : prod[q].state # "running"}) + 1

\* an industry agent's execute() raises
ProducerRaise(p) ==
    /\ pc = "search" /\ prod[p].state = "running"
    /\ prod' = [prod EXCEPT ![p].state = "raised", ![p].rank = NextRank]
    /\ Fault
    /\ UNCHANGED <<rlvars, agents, config, lead, pc, lists, st, pre, work, results, coord_result, wfpc,
                   stored, wf_result, escaped>>

\* an industry agent's execute() returns a result with success=False
ProducerFail(p) ==
    /\ pc = "search" /\ prod[p].state = "running"
    /\ prod' = [prod EXCEPT ![p].state = "failed", ![p].rank = NextRank]
    /\ Fault
    /\ UNCHANGED <<rlvars, agents, config, lead, pc, lists, st, pre, work, results, coord_result, wfpc,
                   stored, wf_result, escaped>>

\* Variant of ProducerReturn: the agents hand out Lead objects of one shared pool, so
\* an agent that returns writes to the objects another agent has returned
ProducerReturnShared(p) ==
    /\ pc = "search" /\ prod[p].state = "running"
    /\ \E n \in 0..MaxPerProducer : \E cs \in [1..n -> Companies] :
          /\ prod' = [prod EXCEPT ![p] = [state |-> "ok",
                                          leads_found |-> [i \in 1..n |-> <<"banking_agent", i>>],
                                          rank |-> NextRank]]
          /\ lead' = [id \in {<<"banking_agent", i>> : i \in 1..n} |->
                         NewLead(cs[id[2]], SourceOf(p), SignalsOf(p), TagsOf(p))] @@ lead
    /\ UNCHANGED <<rlvars, agents, config, faults, pc, lists, st, pre, work, results, coord_result, wfpc, stored,
                   wf_result, escaped>>

\* an industry agent's execute() returns success=True with the leads it created
ProducerReturn(p) ==
    /\ pc = "search" /\ prod[p].state = "running"
    /\ \E n \in 0..MaxPerProducer : \E cs \in [1..n -> Companies] :
          /\ prod' = [prod EXCEPT ![p] = [state |-> "ok",
                                          leads_found |-> [i \in 1..n |-> <<p, i>>],
                                          rank |-> NextRank]]
          /\ lead' = [id \in {<<p, i>> : i \in 1..n} |->
                         NewLead(cs[id[2]], SourceOf(p), SignalsOf(p), TagsOf(p))] @@ lead
    /\ UNCHANGED <<rlvars, agents, config, faults, pc, lists, st, pre, work, results, coord_result, wfpc, stored,
                   wf_result, escaped>>

\* Variant of FanOut: a producer that raised cancels the producers after it
RECURSIVE FanOutCancelling(_, _)
FanOutCancelling(order, results_) ==
    IF order = <<>> \/ results_[Head(order)].state = "raised" THEN <<>>
    ELSE (IF results_[Head(order)].state = "ok" THEN results_[Head(order)].leads_found
          ELSE <<>>) \o FanOutCancelling(Tail(order), results_)

\* the industry agents in the order their execute() finished
CompletionOrder(order, results_) ==
    [i \in 1..Len(order) |-> CHOOSE p \in Range(order) : results_[p].rank = i]

\* Variant of FanOut: the results are taken in the order the agents finished
RECURSIVE FanOutAsCompleted(_, _)
FanOutAsCompleted(order, results_) ==
    LET done == CompletionOrder(order, results_)
        leads(p) == IF results_[p].state = "ok" THEN results_[p].leads_found ELSE <<>>
        RECURSIVE Cat(_)
        Cat(i) == IF i > Len(done) THEN <<>> ELSE leads(done[i]) \o Cat(i + 1)
    IN Cat(1)

\* coordinator.py lines 236-249: leads of the results that are no exception and
\* report success, in the order of self.industry_agents
RECURSIVE FanOut(_, _)
FanOut(order, results_) ==
    IF order = <<>> THEN <<>>
    ELSE (IF results_[Head(order)].state = "ok" THEN results_[Head(order)].leads_found
          ELSE <<>>) \o FanOut(Tail(order), results_)

\* Variant of Gather: the run goes on to deduplication even with no lead
GatherOnward ==
    /\ pc = "search"
    /\ \A p \in Producers : prod[p].state # "running"
    /\ lists' = [lists EXCEPT !.raw_leads = FanOut(ProducerOrder, prod)]
    /\ pc' = "dedup"
    /\ UNCHANGED <<rlvars, agents, config, faults, prod, lead, st, pre, work, results, coord_result, wfpc,
                   stored, wf_result, escaped>>

\* coordinator.py lines 135-145: gather has returned; no leads ends the run
Gather ==
    /\ pc = "search"
    /\ \A p \in Producers : prod[p].state # "running"
    /\ LET raw == FanOut(ProducerOrder, prod)
       IN /\ lists' = [lists EXCEPT !.raw_leads = raw]
          /\ IF raw = <<>>
             THEN /\ pc' = "done"
                  /\ coord_result' = Result(TRUE, <<>>, None)
             ELSE /\ pc' = "dedup"
                  /\ UNCHANGED coord_result
    /\ UNCHANGED <<rlvars, agents, config, faults, prod, lead, st, pre, work, results, wfpc, stored, wf_result,
                   escaped>>

(* ---- Phase 2 ---- *)

\* coordinator.py line 149
Dedup ==
    /\ pc = "dedup"
    /\ LET d == DedupFold(lists.raw_leads, [unique |-> <<>>, heap |-> lead])
       IN /\ lists' = [lists EXCEPT !.unique_leads = d.unique]
          /\ lead' = d.heap
    /\ prod' = [p \in Producers |-> [prod[p] EXCEPT !.rank = 0]]
    /\ pc' = "enrichment"
    /\ UNCHANGED <<rlvars, agents, config, faults, st, pre, work, results, coord_result, wfpc, stored,
                   wf_result, escaped>>


(* ---- Phases 3-5: a supporting agent's execute() ---- *)

\* coordinator.py lines 296-297, 312-313, 328-329: no agent, the list passes through
StageSkip(stage) ==
    /\ pc = stage /\ st.stage = None
    /\ stage \notin agents
    /\ lists' = [lists EXCEPT ![OutputOf(stage)] = InputOf(stage)]
    /\ pc' = PhaseAfter(stage)
    /\ UNCHANGED <<rlvars, agents, config, faults, prod, lead, st, pre, work, results, coord_result, wfpc, stored,
                   wf_result, escaped>>

\* Variant of StageEmpty: an empty list is reported as a failure of the stage
StageEmptyReported(stage) ==
    /\ pc = stage /\ st.stage = None
    /\ stage \in agents
    /\ InputOf(stage) = <<>>
    /\ LET result == Result(FALSE, <<>>, "error")
       IN /\ results' = [results EXCEPT ![stage] = result]
          /\ lists' = [lists EXCEPT ![OutputOf(stage)] = StageLeads(result, InputOf(stage))]
    /\ pc' = PhaseAfter(stage)
    /\ UNCHANGED <<rlvars, agents, config, faults, prod, lead, st, pre, work, coord_result, wfpc, stored,
                   wf_result, escaped>>

\* execute() lines 57-64 (enrichment), 60-67 (validation), 65-72 (timing)
StageEmpty(stage) ==
    /\ pc = stage /\ st.stage = None
    /\ stage \in agents
    /\ InputOf(stage) = <<>>
    /\ LET result == Result(TRUE, <<>>, None)
       IN /\ results' = [results EXCEPT ![stage] = result]
          /\ lists' = [lists EXCEPT ![OutputOf(stage)] = StageLeads(result, InputOf(stage))]
    /\ pc' = PhaseAfter(stage)
    /\ UNCHANGED <<rlvars, agents, config, faults, prod, lead, st, pre, work, coord_result, wfpc, stored,
                   wf_result, escaped>>

\* execute() is entered with a non-empty list
StageBegin(stage) ==
    /\ pc = stage /\ st.stage = None
    /\ stage \in agents
    /\ InputOf(stage) # <<>>
    /\ st' = [Idle EXCEPT !.stage = stage, !.leads = InputOf(stage), !.i = 1]
    /\ pre' = lead
    /\ UNCHANGED <<rlvars, agents, config, faults, prod, lead, pc, lists, work, results, coord_result, wfpc,
                   stored, wf_result, escaped>>

Cur == st.leads[st.i]
InLoop == st.stage # None /\ st.i <= Len(st.leads)

\* Variant of LoopOver: execute() returns once the first lead has been handled
LoopOverAfterFirst == st.i > 1

\* `for lead in leads` is exhausted
LoopOver == st.i > Len(st.leads)

\* Variant of Advance: the lead handled is not appended to any list
AdvanceDropping(to) == [st EXCEPT !.i = @ + 1, !.unit = "idle"]

\* Variant of Advance: the lead handled is appended twice
AdvanceTwice(to) ==
    [st EXCEPT !.i = @ + 1, !.unit = "idle", ![to] = Append(Append(@, Cur), Cur)]

\* `for lead in leads` moves on: the lead is appended to the list `to`
Advance(to) ==
    [st EXCEPT !.i = @ + 1, !.unit = "idle", ![to] = Append(@, Cur)]

\* enrichment_agent.py line 120
EnrichBegin(l) == [l EXCEPT !.status = "enriching"]

\* What the sources of enrich() can come back with: nothing usable, Clearbit data for
\* the company's domain, or search results that mention a mainframe
EnrichOutcomes == {"nothing", "company_info", "legacy_stack"}

\* lines 206-207 and 232-233: the indicators, created with defaults when there are none
IndicatorsOf(c) ==
    IF c.technology_indicators = <<>> THEN NoIndicators ELSE c.technology_indicators[1]

\* lines 183-214: Clearbit is asked only for a company with a website
HasCompanyInfo(c, found) == found = "company_info" /\ c.website

\* Variant of EnrichDone: the company is renamed to the name the source knows it by
EnrichDoneRenaming(l, found) ==
    [l EXCEPT !.is_enriched = TRUE,
              !.company.name = Name("registered name", TRUE, FALSE)]

\* enrichment_agent.py lines 123-134: _enrich_company_info (lines 197-214),
\* _enrich_technology_stack (lines 231-249), then is_enriched
EnrichDone(l, found) ==
    LET c == l.company
    IN [l EXCEPT
          !.company =
              IF HasCompanyInfo(c, found)
              THEN [c EXCEPT !.size = "51-250", !.employee_count = <<250>>,
                             !.technology_indicators =
                                 <<[IndicatorsOf(c) EXCEPT !.cloud_migration_signals = TRUE]>>]
              ELSE IF found = "legacy_stack"
              THEN [c EXCEPT !.technology_indicators =
                                 <<[IndicatorsOf(c) EXCEPT !.legacy_systems = TRUE]>>]
              ELSE c,
          !.tags = IF HasCompanyInfo(c, found) THEN @ \cup {"fintech"} ELSE @,
          !.data_sources = IF HasCompanyInfo(c, found) THEN @ \cup {"clearbit"} ELSE @,
          !.is_enriched = TRUE]

\* validation_agent.py line 135
ValidateBegin(l) == [l EXCEPT !.status = "validating"]

\* Variant of ValidateDone: validate() itself assigns the final status
ValidateDoneDeciding(l, res) ==
    [l EXCEPT !.validation_notes = CheckNotes(Checks(l.company, res)),
              !.is_validated = TRUE,
              !.status = StatusFor(IsValid(Checks(l.company, res)))]

\* Variant of ValidateDone: only a lead found valid is marked as validated
ValidateDoneMarkingValid(l, res) ==
    [l EXCEPT !.validation_notes = CheckNotes(Checks(l.company, res)),
              !.is_validated = IsValid(Checks(l.company, res))]

\* validation_agent.py lines 138-159: line 146 assigns validation_notes a new list, so
\* the notes it held and the notes the checks appended (LegitimacyNotes, SizeNotes)
\* are gone when validate returns
ValidateDone(l, res) ==
    [l EXCEPT !.validation_notes = CheckNotes(Checks(l.company, res)),
              !.is_validated = TRUE]

\* validation_agent.py line 139: validate raises in its first check (a
\* target_industries or min_employee_count of the wrong type); nothing is undone
ValidateAbort(l) == l

\* Variant of ValidateAssign: a lead that fails validation is sent back to NEW
ValidateAssignReset(l, is_valid) ==
    [l EXCEPT !.status = IF is_valid THEN "qualified" ELSE "new"]

\* validation_agent.py lines 76 and 79
ValidateAssign(l, is_valid) == [l EXCEPT !.status = StatusFor(is_valid)]

\* Variant of TimingDone: the urgency level and the recommended action are worked out
\* before the detectors have added their signals
TimingDoneEarlyAdvice(l, found) ==
    LET signals == Detect(l.buying_signals, found)
        score == CalculateTimingScore(signals)
        early == CalculateTimingScore(l.buying_signals)
    IN [l EXCEPT !.buying_signals = signals,
                 !.timing_score = <<score>>,
                 !.urgency = GetUrgencyLevel(early),
                 !.recommended_action = GetRecommendedAction(early)]

\* timing_agent.py lines 125-140: metadata["timing_score"] and the urgency_level and
\* recommended_action of metadata["timing_analysis"]
TimingDone(l, found) ==
    LET signals == Detect(l.buying_signals, found)
        score == CalculateTimingScore(signals)
    IN [l EXCEPT !.buying_signals = signals,
                 !.timing_score = <<score>>,
                 !.urgency = GetUrgencyLevel(score),
                 !.recommended_action = GetRecommendedAction(score)]

\* timing_agent.py lines 122-125: _analyze_timing raises before its detectors have
\* added anything (the detectors absorb their own errors, lines 167, 195, 212)
TimingAbort(l) == l

Detectors == {"job_posting", "executive_change"}

\* Variant of EnrichStart: the units of all leads still to be handled are started
\* together, as asyncio.gather over enrich(lead) would
EnrichStartAll ==
    /\ InLoop /\ st.stage = "enrichment" /\ st.unit = "idle"
    /\ lead' = [id \in DOMAIN lead |->
                   IF \E k \in st.i..Len(st.leads) : st.leads[k] = id
                   THEN EnrichBegin(lead[id]) ELSE lead[id]]
    /\ st' = [st EXCEPT !.unit = "running"]
    /\ work' = [work EXCEPT !["enrichment"] =
                   [id \in LeadIds |->
                       IF \E k \in st.i..Len(st.leads) : st.leads[k] = id
                       THEN "running" ELSE @[id]]]
    /\ UNCHANGED <<rlvars, agents, config, faults, prod, pc, lists, pre, results, coord_result, wfpc, stored,
                   wf_result, escaped>>

\* enrich(lead) runs up to its first external call
EnrichStart ==
    /\ InLoop /\ st.stage = "enrichment" /\ st.unit = "idle"
    /\ lead' = [lead EXCEPT ![Cur] = EnrichBegin(@)]
    /\ st' = [st EXCEPT !.unit = "running"]
    /\ work' = [work EXCEPT !["enrichment"][Cur] = "running"]
    /\ UNCHANGED <<rlvars, agents, config, faults, prod, pc, lists, pre, results, coord_result, wfpc, stored,
                   wf_result, escaped>>

\* enrich(lead) returns; enrichment_agent.py line 71
EnrichReturn ==
    /\ InLoop /\ st.stage = "enrichment" /\ st.unit = "running"
    /\ \E found \in EnrichOutcomes :
          /\ config.enrichment_keys \/ found = "nothing"
          /\ lead' = [lead EXCEPT ![Cur] = EnrichDone(@, found)]
    /\ st' = Advance("out")
    /\ work' = [work EXCEPT !["enrichment"][Cur] = "done"]
    /\ UNCHANGED <<rlvars, agents, config, faults, prod, pc, lists, pre, results, coord_result, wfpc, stored,
                   wf_result, escaped>>

\* enrich(lead) raises; enrichment_agent.py lines 72-74
EnrichRaise ==
    /\ InLoop /\ st.stage = "enrichment" /\ st.unit = "running"
    /\ st' = Advance("out")
    /\ work' = [work EXCEPT !["enrichment"][Cur] = "raised"]
    /\ Fault
    /\ UNCHANGED <<rlvars, agents, config, prod, lead, pc, lists, pre, results, coord_result, wfpc,
                   stored, wf_result, escaped>>

\* validate(lead) runs up to its first external call
ValidateStart ==
    /\ InLoop /\ st.stage = "validation" /\ st.unit = "idle"
    /\ lead' = [lead EXCEPT ![Cur] = ValidateBegin(@)]
    /\ st' = [st EXCEPT !.unit = "running"]
    /\ work' = [work EXCEPT !["validation"][Cur] = "running"]
    /\ UNCHANGED <<rlvars, agents, config, faults, prod, pc, lists, pre, results, coord_result, wfpc, stored,
                   wf_result, escaped>>

\* validate(lead) returns is_valid; validation_agent.py line 73
ValidateReturn ==
    /\ InLoop /\ st.stage = "validation" /\ st.unit = "running"
    /\ \E call \in SearchCalls :
          LET res == LegitimacyOutcome(WebSearch(call))
          IN /\ lead' = [lead EXCEPT ![Cur] = ValidateDone(@, res)]
             /\ st' = [st EXCEPT !.unit = "returned", !.search = call,
                                 !.is_valid = IsValid(Checks(lead[Cur].company, res))]
    /\ UNCHANGED <<rlvars, agents, config, faults, prod, pc, lists, pre, work, results, coord_result, wfpc,
                   stored, wf_result, escaped>>

\* validation_agent.py lines 75-80
ValidateSetStatus ==
    /\ InLoop /\ st.stage = "validation" /\ st.unit = "returned"
    /\ lead' = [lead EXCEPT ![Cur] = ValidateAssign(@, st.is_valid)]
    /\ st' = [Advance(IF st.is_valid THEN "out" ELSE "dis") EXCEPT !.search = None]
    /\ work' = [work EXCEPT !["validation"][Cur] = "done"]
    /\ UNCHANGED <<rlvars, agents, config, faults, prod, pc, lists, pre, results, coord_result, wfpc, stored,
                   wf_result, escaped>>

\* validate(lead) raises; validation_agent.py lines 82-85
ValidateRaise ==
    /\ InLoop /\ st.stage = "validation" /\ st.unit = "running"
    /\ lead' = [lead EXCEPT ![Cur] = ValidateAbort(@)]
    /\ st' = Advance("out")
    /\ work' = [work EXCEPT !["validation"][Cur] = "raised"]
    /\ Fault
    /\ UNCHANGED <<rlvars, agents, config, prod, pc, lists, pre, results, coord_result, wfpc, stored,
                   wf_result, escaped>>

\* _analyze_timing(lead) runs up to its first external call
TimingStart ==
    /\ InLoop /\ st.stage = "timing" /\ st.unit = "idle"
    /\ st' = [st EXCEPT !.unit = "running"]
    /\ work' = [work EXCEPT !["timing"][Cur] = "running"]
    /\ UNCHANGED <<rlvars, agents, config, faults, prod, lead, pc, lists, pre, results, coord_result, wfpc,
                   stored, wf_result, escaped>>

\* _analyze_timing(lead) returns; timing_agent.py lines 78-79
TimingReturn ==
    /\ InLoop /\ st.stage = "timing" /\ st.unit = "running"
    /\ \E found \in SUBSET Detectors :
          lead' = [lead EXCEPT ![Cur] = TimingDone(@, found)]
    /\ st' = Advance("out")
    /\ work' = [work EXCEPT !["timing"][Cur] = "done"]
    /\ UNCHANGED <<rlvars, agents, config, faults, prod, pc, lists, pre, results, coord_result, wfpc, stored,
                   wf_result, escaped>>

\* _analyze_timing(lead) raises; timing_agent.py lines 80-82
TimingRaise ==
    /\ InLoop /\ st.stage = "timing" /\ st.unit = "running"
    /\ lead' = [lead EXCEPT ![Cur] = TimingAbort(@)]
    /\ st' = Advance("out")
    /\ work' = [work EXCEPT !["timing"][Cur] = "raised"]
    /\ Fault
    /\ UNCHANGED <<rlvars, agents, config, prod, pc, lists, pre, results, coord_result, wfpc, stored,
                   wf_result, escaped>>

\* the loop is over and execute() returns success=True: enrichment_agent.py lines
\* 78-90, validation_agent.py lines 89-106, timing_agent.py lines 86-98
StageSucceed ==
    /\ st.stage # None /\ LoopOver
    /\ LET result == Result(TRUE, st.out, None)
       IN /\ results' = [results EXCEPT ![st.stage] = result]
          /\ lists' = [lists EXCEPT ![OutputOf(st.stage)] = StageLeads(result, st.leads)]
    /\ pc' = PhaseAfter(st.stage)
    /\ st' = Idle
    /\ UNCHANGED <<rlvars, agents, config, faults, prod, lead, pre, work, coord_result, wfpc, stored, wf_result,
                   escaped>>

\* building the result raises and execute() returns success=False: enrichment_agent.py
\* lines 92-105, validation_agent.py lines 108-121, timing_agent.py lines 100-113
StageFail ==
    /\ st.stage # None /\ LoopOver
    /\ LET result == Result(FALSE, st.out, "error")
       IN /\ results' = [results EXCEPT ![st.stage] = result]
          /\ lists' = [lists EXCEPT ![OutputOf(st.stage)] = StageLeads(result, st.leads)]
    /\ pc' = PhaseAfter(st.stage)
    /\ st' = Idle
    /\ Fault
    /\ UNCHANGED <<rlvars, agents, config, prod, lead, pre, work, coord_result, wfpc, stored, wf_result,
                   escaped>>

(* ---- Phase 6 and the return of MasterCoordinator.execute ---- *)

\* coordinator.py lines 344-346
Scored(heap, leads) ==
    [id \in DOMAIN heap |->
        IF id \in Range(leads) THEN [heap[id] EXCEPT !.score = <<CalculateLeadScore(heap[id])>>]
        ELSE heap[id]]

\* coordinator.py lines 169-202 and 334-355; a LeadScore out of range raises into
\* the except clause (lines 204-217)
ScoreAndRank ==
    /\ pc = "scoring"
    /\ LET heap == Scored(lead, lists.timed_leads)
           ranked == Rank(heap, lists.timed_leads, <<>>)
       IN IF \A id \in Range(lists.timed_leads) : ScoreInRange(heap[id].score[1])
          THEN /\ lead' = heap
               /\ lists' = [lists EXCEPT !.scored_leads = ranked]
               /\ coord_result' = Result(TRUE, ranked, None)
               /\ UNCHANGED escaped
          ELSE /\ coord_result' = CoordinatorCatch.result
               /\ escaped' = CoordinatorCatch.escaped
               /\ UNCHANGED <<lead, lists>>
    /\ pc' = "done"
    /\ UNCHANGED <<rlvars, agents, config, faults, prod, st, pre, work, results, wfpc, stored, wf_result>>

\* coordinator.py lines 169-170 and 204-217: _score_and_rank_leads raises (a company
\* field of an unexpected type) and the except clause builds the result
ScoreRaise ==
    /\ pc = "scoring"
    /\ coord_result' = CoordinatorCatch.result
    /\ escaped' = CoordinatorCatch.escaped
    /\ pc' = "done"
    /\ Fault
    /\ UNCHANGED <<rlvars, agents, config, prod, lead, lists, st, pre, work, results, wfpc, stored,
                   wf_result>>

(***************************************************************************)
(* LeadGenerationWorkflow.execute and LeadStorage.store_leads              *)
(***************************************************************************)
\* workflow.py lines 97-129 without the store: a failed run, or a run without leads
WorkflowReturn ==
    /\ pc = "done" /\ wfpc = "coordinator"
    /\ ~coord_result.success \/ coord_result.leads_found = <<>>
    /\ wf_result' = coord_result
    /\ wfpc' = "done"
    /\ UNCHANGED <<rlvars, agents, config, faults, prod, lead, pc, lists, st, pre, work, results, coord_result,
                   stored, escaped>>

\* workflow.py lines 109-111 into storage.py lines 90-93: initialize() has returned and
\* the store_lead calls are about to be gathered
WorkflowStore ==
    /\ pc = "done" /\ wfpc = "coordinator"
    /\ coord_result.success /\ coord_result.leads_found # <<>>
    /\ wfpc' = "store"
    /\ UNCHANGED <<rlvars, agents, config, faults, prod, lead, pc, lists, st, pre, work, results, coord_result,
                   stored, wf_result, escaped>>

\* Variant of StoreLeads: a store_lead call that raises fails the workflow
StoreLeadsStrict ==
    /\ wfpc = "store"
    /\ \E ok \in SUBSET Range(coord_result.leads_found) :
          LET failed == Cardinality(Range(coord_result.leads_found) \ ok)
          IN /\ faults + failed <= MaxFaults
             /\ faults' = faults + failed
             /\ stored' = ok
             /\ wf_result' = IF failed = 0 THEN coord_result ELSE WorkflowCatch.result
    /\ wfpc' = "done"
    /\ UNCHANGED <<rlvars, agents, config, prod, lead, pc, lists, st, pre, work, results, coord_result,
                   escaped>>

\* storage.py lines 93-96: gather(return_exceptions=True) swallows the store_lead calls
\* that raise; `ok` are the leads whose upsert went through. workflow.py lines 115-129.
StoreLeads ==
    /\ wfpc = "store"
    /\ \E ok \in SUBSET Range(coord_result.leads_found) :
          LET failed == Cardinality(Range(coord_result.leads_found) \ ok)
          IN /\ faults + failed <= MaxFaults
             /\ faults' = faults + failed
             /\ stored' = ok
    /\ wf_result' = coord_result
    /\ wfpc' = "done"
    /\ UNCHANGED <<rlvars, agents, config, prod, lead, pc, lists, st, pre, work, results, coord_result,
                   escaped>>

\* workflow.py lines 109-111 and storage.py line 90: initialize() raises out of
\* store_leads into the except clause of workflow.py lines 131-141
StoreInitRaise ==
    /\ pc = "done" /\ wfpc = "coordinator"
    /\ coord_result.success /\ coord_result.leads_found # <<>>
    /\ wf_result' = WorkflowCatch.result
    /\ escaped' = WorkflowCatch.escaped
    /\ wfpc' = "done"
    /\ Fault
    /\ UNCHANGED <<rlvars, agents, config, prod, lead, pc, lists, st, pre, work, results, coord_result,
                   stored>>

(***************************************************************************)
(* Specifications                                                          *)
(***************************************************************************)
Init == RLInit /\ PLInit

Next ==
    \/ \E p \in Producers : ProducerRaise(p) \/ ProducerFail(p) \/ ProducerReturn(p)
    \/ Gather
    \/ Dedup
    \/ \E stage \in Stages : StageSkip(stage) \/ StageEmpty(stage) \/ StageBegin(stage)
    \/ EnrichStart \/ EnrichReturn \/ EnrichRaise
    \/ ValidateStart \/ ValidateReturn \/ ValidateSetStatus \/ ValidateRaise
    \/ TimingStart \/ TimingReturn \/ TimingRaise
    \/ StageSucceed \/ StageFail
    \/ ScoreAndRank \/ ScoreRaise
    \/ WorkflowReturn \/ WorkflowStore \/ StoreLeads \/ StoreInitRaise

\* The pipeline; the rate limiter is at rest
Spec == Init /\ [][Next]_vars

NextRL ==
    \/ \E t \in Tasks : CallProceed(t) \/ CallSleep(t) \/ Wake(t)
    \/ Tick

(* ---- _deduplicate_leads called on a list of its own ---- *)
MaxDedupLen == 3    \* leads in the list given to _deduplicate_leads

\* a company known by its name and identifiers only
Named(name, fdic, sam, duns) ==
    Company(name, "banking", fdic, sam, duns, <<>>, None, FALSE, <<>>)

\* Leads as the callers of _deduplicate_leads build them: same certificate under two
\* names, one name in three spellings, one name under another certificate, an empty
\* certificate, two identifiers at once, and a name that reads like a key
DedupLeads ==
    { NewLead(Named(Name("test bank a", TRUE, FALSE), "12345", None, None),
              {"fdic"}, <<>>, {"banking", "fdic"}),
      NewLead(Named(Name("first national", TRUE, FALSE), "12345", None, None),
              {"web_search"}, <<"job_posting">>, {"insurance"}),
      NewLead(Named(Name("test bank a", TRUE, TRUE), None, None, None),
              {"web_search"}, <<"technology_initiative">>, {}),
      NewLead(Named(Name("test bank a", FALSE, FALSE), "", None, None),
              {"clearbit"}, <<"job_posting", "technology_initiative">>, {"banking"}),
      NewLead(Named(Name("test bank a", TRUE, FALSE), "67890", None, None),
              {"fdic"}, <<"rfp_published">>, {"fdic"}),
      NewLead(Named(Name("agency", TRUE, FALSE), None, "UEI1", "D1"),
              {"sam.gov", "web_search"}, <<"rfp_published">>, {"government"}),
      NewLead(Named(Name("bureau", TRUE, FALSE), None, None, "D1"),
              {"web_search"}, <<>>, {"government"}),
      NewLead(Named(Name("fdic_12345", FALSE, FALSE), None, None, None),
              {"web_search"}, <<"recent_funding">>, {}) }

\* _deduplicate_leads is about to run on a list of up to MaxDedupLen leads
InitDedup ==
    /\ RLInit
    /\ agents = Stages
    /\ config = DefaultConfig
    /\ faults = 0
    /\ prod = [p \in Producers |-> [state |-> "ok", leads_found |-> <<>>, rank |-> 0]]
    /\ \E n \in 0..MaxDedupLen : \E ls \in [1..n -> DedupLeads] :
          /\ lead = [id \in {<<"lead", i>> : i \in 1..n} |-> ls[id[2]]]
          /\ lists = [raw_leads |-> [i \in 1..n |-> <<"lead", i>>], unique_leads |-> <<>>,
                      enriched_leads |-> <<>>, validated_leads |-> <<>>,
                      timed_leads |-> <<>>, scored_leads |-> <<>>]
    /\ pc = "dedup"
    /\ st = Idle
    /\ pre = lead
    /\ work = [s \in Stages |-> [id \in LeadIds |-> "none"]]
    /\ results = [s \in Stages |-> NoResult]
    /\ coord_result = NoResult
    /\ wfpc = "coordinator"
    /\ stored = {}
    /\ wf_result = NoResult
    /\ escaped = FALSE

SpecDedup == InitDedup /\ [][Dedup]_vars

(* ---- ValidationAgent.execute called on a list of its own ---- *)
MaxValidateLen == 2    \* leads in the list given to ValidationAgent.execute

\* a company as validation sees it: industry, head count, size category, indicators
Sized(industry, employees, size, technology) ==
    Company(Name("test company", TRUE, FALSE), industry, None, None, None, employees, size,
            TRUE, technology)

\* Leads of a target industry, of an industry that a narrower configuration leaves
\* out, and of unknown industry; below and above the minimum head count, and without
\* head count; with and without technology indicators
ValidationLeads ==
    { NewLead(Sized(ind, emp[1], emp[2], emp[3]), {"web_search"}, <<>>, {}) :
        ind \in {"banking", "energy", "unknown"},
        emp \in { << <<50>>, None, <<>> >>, << <<1000>>, "Large", <<NoIndicators>> >>,
                  << <<>>, "Small", <<NoIndicators>> >> } }

\* target_industries as configured: the default, or banking and insurance only
Configs == {DefaultConfig, [DefaultConfig EXCEPT !.target_industries = {"banking", "insurance"}]}

\* the coordinator is about to call ValidationAgent.execute
InitValidate ==
    /\ RLInit
    /\ agents = Stages
    /\ config \in Configs
    /\ faults = 0
    /\ prod = [p \in Producers |-> [state |-> "ok", leads_found |-> <<>>, rank |-> 0]]
    /\ \E n \in 1..MaxValidateLen : \E ls \in [1..n -> ValidationLeads] :
          /\ lead = [id \in {<<"lead", i>> : i \in 1..n} |->
                        [ls[id[2]] EXCEPT !.status = "enriching", !.is_enriched = TRUE]]
          /\ lists = [raw_leads |-> [i \in 1..n |-> <<"lead", i>>],
                      unique_leads |-> [i \in 1..n |-> <<"lead", i>>],
                      enriched_leads |-> [i \in 1..n |-> <<"lead", i>>],
                      validated_leads |-> <<>>, timed_leads |-> <<>>, scored_leads |-> <<>>]
          /\ work = [s \in Stages |-> [id \in {<<"lead", i>> : i \in 1..n} |-> "none"]]
    /\ pc = "validation"
    /\ st = Idle
    /\ pre = lead
    /\ results = [s \in Stages |-> NoResult]
    /\ coord_result = NoResult
    /\ wfpc = "coordinator"
    /\ stored = {}
    /\ wf_result = NoResult
    /\ escaped = FALSE

NextValidate ==
    \/ StageBegin("validation")
    \/ ValidateStart \/ ValidateReturn \/ ValidateSetStatus \/ ValidateRaise
    \/ StageSucceed \/ StageFail

SpecValidate == InitValidate /\ [][NextValidate]_vars

(* ---- MasterCoordinator.execute from deduplication on, nothing raising ---- *)
MaxRunLen == 2    \* leads the industry agents returned

\* what the industry agents returned: a bank known by its certificate, the same name
\* found on the web, two insurers without a website that differ in name only, an
\* energy company with initiatives, a small body of unknown industry with many signals
RunLeads ==
    { NewLead(Company(Name("test bank a", TRUE, FALSE), "banking", "12345", None, None,
                      <<1000>>, None, TRUE, <<>>),
              {"fdic"}, <<>>, {"banking", "fdic"}),
      NewLead(Company(Name("test bank a", TRUE, TRUE), "banking", None, None, None,
                      <<>>, None, TRUE, <<>>),
              {"web_search"}, <<"rfp_published">>, {"banking"}),
      NewLead(Company(Name("acme insurance", TRUE, FALSE), "insurance", None, None, None,
                      <<>>, None, FALSE, <<NoIndicators>>),
              {"web_search"}, <<"technology_initiative">>, {"insurance"}),
      NewLead(Company(Name("beta insurance", TRUE, FALSE), "insurance", None, None, None,
                      <<>>, None, FALSE, <<NoIndicators>>),
              {"web_search"}, <<"technology_initiative">>, {"insurance"}),
      NewLead(Company(Name("acme insurance", FALSE, FALSE), "energy", None, None, "D1",
                      <<>>, "Large", FALSE,
                      <<[NoIndicators EXCEPT !.digital_transformation_initiatives = 3]>>),
              {"web_search"}, <<"technology_initiative">>, {"energy"}),
      NewLead(Company(Name("civic trust", TRUE, FALSE), "unknown", None, "UEI1", None,
                      <<50>>, "Small", TRUE, <<>>),
              {"sam.gov"},
              <<"rfp_published", "regulatory_deadline", "job_posting", "executive_change">>,
              {"government"}) }

\* the state every run starts from once the heap and the raw list are given
RunFrom(heap, raw) ==
    /\ RLInit
    /\ agents = Stages
    /\ config = [DefaultConfig EXCEPT !.enrichment_keys = TRUE]
    /\ faults = 0
    /\ prod = [p \in Producers |-> [state |-> "ok", leads_found |-> <<>>, rank |-> 0]]
    /\ lead = heap
    /\ lists = [raw_leads |-> raw, unique_leads |-> <<>>, enriched_leads |-> <<>>,
                validated_leads |-> <<>>, timed_leads |-> <<>>, scored_leads |-> <<>>]
    /\ pc = "dedup"
    /\ st = Idle
    /\ pre = heap
    /\ work = [s \in Stages |-> [id \in DOMAIN heap |-> "none"]]
    /\ results = [s \in Stages |-> NoResult]
    /\ coord_result = NoResult
    /\ wfpc = "coordinator"
    /\ stored = {}
    /\ wf_result = NoResult
    /\ escaped = FALSE

\* the steps from deduplication on, given a raw list of up to MaxRunLen leads (the
\* empty list as in test_empty_leads_list, test_integration.py lines 366-382)
InitRun ==
    \E n \in 0..MaxRunLen : \E ls \in [1..n -> RunLeads] :
        RunFrom([id \in {<<"lead", i>> : i \in 1..n} |-> ls[id[2]]],
                [i \in 1..n |-> <<"lead", i>>])

NextRun ==
    \/ Dedup
    \/ \E stage \in Stages : StageEmpty(stage) \/ StageBegin(stage)
    \/ EnrichStart \/ EnrichReturn
    \/ ValidateStart \/ ValidateReturn \/ ValidateSetStatus
    \/ TimingStart \/ TimingReturn
    \/ StageSucceed
    \/ ScoreAndRank

SpecRun == InitRun /\ [][NextRun]_vars

(* ---- _score_and_rank_leads called on a list of its own ---- *)
MaxRankLen == 3    \* leads in the list given to _score_and_rank_leads

\* a lead as enrichment, validation and timing analysis leave it when nothing raises
Staged(l, found, detected) ==
    TimingDone(ValidateAssign(ValidateDone(ValidateBegin(EnrichDone(EnrichBegin(l), found)),
                                           "ok"), TRUE), detected)

\* the leads that reach scoring
RankLeads ==
    {Staged(l, found, detected) :
        l \in RunLeads, found \in {"nothing", "legacy_stack"},
        detected \in {{}, {"job_posting"}}}

\* the coordinator is about to call _score_and_rank_leads on leads of different keys
InitRank ==
    /\ RLInit
    /\ agents = Stages
    /\ config = [DefaultConfig EXCEPT !.enrichment_keys = TRUE]
    /\ faults = 0
    /\ prod = [p \in Producers |-> [state |-> "ok", leads_found |-> <<>>, rank |-> 0]]
    /\ \E n \in 0..MaxRankLen : \E ls \in [1..n -> RankLeads] :
          /\ \A i, j \in 1..n : i # j => DedupKey(ls[i].company) # DedupKey(ls[j].company)
          /\ lead = [id \in {<<"lead", i>> : i \in 1..n} |-> ls[id[2]]]
          /\ lists = [l \in {"raw_leads", "unique_leads", "enriched_leads",
                              "validated_leads", "timed_leads"} |->
                          [i \in 1..n |-> <<"lead", i>>]] @@ [scored_leads |-> <<>>]
          /\ work = [s \in Stages |-> [id \in {<<"lead", i>> : i \in 1..n} |-> "done"]]
          /\ results = [s \in Stages |->
                          Result(TRUE, [i \in 1..n |-> <<"lead", i>>], None)]
    /\ pc = "scoring"
    /\ st = Idle
    /\ pre = lead
    /\ coord_result = NoResult
    /\ wfpc = "coordinator"
    /\ stored = {}
    /\ wf_result = NoResult
    /\ escaped = FALSE

SpecRank == InitRank /\ [][ScoreAndRank]_vars

(***************************************************************************)
(* The adapter: WebSearchTool.search over BaseTool's cache and rate limiter *)
(* (src/tools/web_search.py lines 36-132, src/tools/base_tool.py)          *)
(***************************************************************************)
CacheTtl == 60      \* self.cache's ttl (cache_ttl) of the modelled tool instance

MaxSearches == 3    \* searches of one behaviour that get as far as the rate limiter

\* what the awaited client.post and the handling of its response can come to: a
\* failure of SearchFailures, a body that is not the JSON object expected
\* (response.json() or data.get raises), no result, or results
FailingResponses == SearchFailures \cup {"malformed"}
Responses == {"no_results", "clean"} \cup FailingResponses

\* Variant of CacheGet: an entry is still returned at the very time it expires
CacheGetInclusive(c, key, now) ==
    IF c[key] # <<>> /\ now <= c[key][1].expires THEN <<c[key][1].value>> ELSE <<>>

\* cachetools.TTLCache.__getitem__ under self.cache.get(key) (base_tool.py line 89): an
\* entry is gone once `not (timer() < expires)`; <<>> is None, <<v>> the value v
CacheGet(c, key, now) ==
    IF c[key] # <<>> /\ now < c[key][1].expires THEN <<c[key][1].value>> ELSE <<>>

\* cachetools.TTLCache.expire, run by every __setitem__: expired entries are removed
CacheExpire(c, now) ==
    [k \in DOMAIN c |-> IF c[k] # <<>> /\ ~(now < c[k][1].expires) THEN <<>> ELSE c[k]]

\* self.cache[key] = value (base_tool.py line 102): the entry expires ttl after now.
\* maxsize=1000 (line 47) is never reached by the keys of Queries.
CacheSet(c, key, value, now) ==
    [CacheExpire(c, now) EXCEPT ![key] = <<[value |-> value, expires |-> now + CacheTtl]>>]

\* what search() gives its caller: kind is how it ended, resp what the request came to
Reply(kind, q, resp, value) == [kind |-> kind, query |-> q, resp |-> resp, value |-> value]

\* Variant of Answer: a failed request is not caught and reaches the caller of search()
AnswerPropagating(resp) ==
    IF resp \in FailingResponses THEN [kind |-> "raised", value |-> <<>>]
    ELSE [kind |-> "fetched", value |-> WebSearch(resp)]

\* web_search.py lines 80-132: the results built from the response, or the empty list
\* of the two except clauses
Answer(resp) ==
    IF resp \in FailingResponses THEN [kind |-> "failed", value |-> <<>>]
    ELSE [kind |-> "fetched", value |-> WebSearch(resp)]

\* lines 53-55: no API key, the empty list
SearchNoKey(t, q) ==
    /\ task[t].pc = "idle"
    /\ ~api_key
    /\ reply' = Reply("no_key", q, None, <<>>)
    /\ UNCHANGED <<clock, request_times, task, released, api_key, cache, stores, upstream, plvars>>

\* Variant of SearchHit: the rate limiter is passed before the cache is looked at
SearchHitLimited(t, q) ==
    /\ task[t].pc = "idle"
    /\ api_key
    /\ CacheGet(cache, q, clock) # <<>>
    /\ Admit(t, None)
    /\ reply' = Reply("hit", q, None, CacheGet(cache, q, clock)[1])
    /\ UNCHANGED <<api_key, cache, stores, upstream, plvars>>

\* lines 57-62: the cached value is returned
SearchHit(t, q) ==
    /\ task[t].pc = "idle"
    /\ api_key
    /\ CacheGet(cache, q, clock) # <<>>
    /\ reply' = Reply("hit", q, None, CacheGet(cache, q, clock)[1])
    /\ UNCHANGED <<clock, request_times, task, released, api_key, cache, stores, upstream, plvars>>

\* lines 57-65 and on to the await of client.post: nothing cached, the rate limiter
\* lets the call through
SearchProceed(t, q) ==
    /\ task[t].pc = "idle"
    /\ api_key
    /\ CacheGet(cache, q, clock) = <<>>
    /\ CallsMade < MaxSearches
    /\ Admit(t, q)
    /\ UNCHANGED <<toolvars, plvars>>

\* lines 57-65: nothing cached, the rate limiter suspends the call
SearchSleep(t, q) ==
    /\ task[t].pc = "idle"
    /\ api_key
    /\ CacheGet(cache, q, clock) = <<>>
    /\ CallsMade < MaxSearches
    /\ Suspend(t, q)
    /\ UNCHANGED <<toolvars, plvars>>

\* an exception out of the awaited _check_rate_limit: line 65 lies inside the try, so
\* the except clause of lines 130-132 answers with the empty list
SearchLimiterRaise(t) ==
    /\ task[t].pc = "sleeping"
    /\ task[t].query # None
    /\ reply' = Reply(Answer("malformed").kind, task[t].query, "limiter_error",
                    Answer("malformed").value)
    /\ task' = [task EXCEPT ![t] = NoCall]
    /\ UNCHANGED <<clock, request_times, released, api_key, cache, stores, upstream, plvars>>

\* Variant of SearchRespond: what search() returns is cached, the empty list of the
\* except clauses included
SearchRespondCachingAll(t) ==
    /\ task[t].pc = "request"
    /\ \E resp \in Responses :
          LET q == task[t].query
              answer == Answer(resp)
          IN /\ reply' = Reply(answer.kind, q, resp, answer.value)
             /\ cache' = CacheSet(cache, q, answer.value, clock)
             /\ stores' = [stores EXCEPT ![q] = <<[value |-> answer.value, time |-> clock]>>]
    /\ upstream' = upstream + 1
    /\ task' = [task EXCEPT ![t] = NoCall]
    /\ UNCHANGED <<clock, request_times, released, api_key, plvars>>

\* lines 85-132: the request comes back; results are cached and returned, a failure
\* is answered with the empty list and caches nothing
SearchRespond(t) ==
    /\ task[t].pc = "request"
    /\ \E resp \in Responses :
          LET q == task[t].query
              answer == Answer(resp)
          IN /\ reply' = Reply(answer.kind, q, resp, answer.value)
             /\ IF resp \in FailingResponses
                THEN UNCHANGED <<cache, stores>>
                ELSE /\ cache' = CacheSet(cache, q, answer.value, clock)
                     /\ stores' = [stores EXCEPT
                                      ![q] = <<[value |-> answer.value, time |-> clock]>>]
    /\ upstream' = upstream + 1
    /\ task' = [task EXCEPT ![t] = NoCall]
    /\ UNCHANGED <<clock, request_times, released, api_key, plvars>>

\* the two asyncio tasks that call search() on the tool
Searchers == {1, 2}

NextTool ==
    \/ \E t \in Searchers, q \in Queries :
          SearchNoKey(t, q) \/ SearchHit(t, q) \/ SearchProceed(t, q) \/ SearchSleep(t, q)
    \/ \E t \in Searchers : Wake(t) \/ SearchRespond(t) \/ SearchLimiterRaise(t)
    \/ Tick

(* ---- _calculate_lead_score called on one lead ---- *)
\* employee_count values around each threshold of _score_size_fit; <<>> is None
EmployeeCounts ==
    {<<>>, <<0>>, <<1>>, <<99>>, <<100>>, <<499>>, <<500>>, <<999>>, <<1000>>, <<4999>>,
     <<5000>>}

\* Company.size: None, the empty string, the four names of size_map, another string
SizeCategories == {None, "", "Enterprise", "Large", "Medium", "Small", "51-250"}

\* the values of BuyingSignal (models.py lines 41-49)
BuyingSignals == {SignalOrder[i] : i \in 1..Len(SignalOrder)}

\* leads as they reach scoring: buying_signals holds each signal at most once, since
\* the agents append a signal once and TimingAgent appends only what is absent
ScoreLeads ==
    {NewLead(Company(Name("civic trust", TRUE, FALSE), "unknown", None, "UEI1", None,
                     employees, size, TRUE, <<>>),
             {"sam.gov"}, SignalList(signals), {"government"}) :
        employees \in EmployeeCounts, size \in SizeCategories, signals \in SUBSET BuyingSignals}

\* the coordinator is about to score a list of one lead
InitScore ==
    /\ RLInit
    /\ agents = Stages
    /\ config = DefaultConfig
    /\ faults = 0
    /\ prod = [p \in Producers |-> [state |-> "ok", leads_found |-> <<>>, rank |-> 0]]
    /\ \E l \in ScoreLeads : lead = [id \in {<<"lead", 1>>} |-> l]
    /\ lists = [l \in {"raw_leads", "unique_leads", "enriched_leads",
                        "validated_leads", "timed_leads"} |-> << <<"lead", 1>> >>]
               @@ [scored_leads |-> <<>>]
    /\ work = [s \in Stages |-> [id \in {<<"lead", 1>>} |-> "done"]]
    /\ results = [s \in Stages |-> Result(TRUE, << <<"lead", 1>> >>, None)]
    /\ pc = "scoring"
    /\ st = Idle
    /\ pre = lead
    /\ coord_result = NoResult
    /\ wfpc = "coordinator"
    /\ stored = {}
    /\ wf_result = NoResult
    /\ escaped = FALSE

SpecScore == InitScore /\ [][ScoreAndRank]_vars

(* ---- the timing stage and the scoring that follows it ---- *)
\* a lead as enrichment and validation leave it when nothing raises
Validated(l) ==
    ValidateAssign(ValidateDone(ValidateBegin(EnrichDone(EnrichBegin(l), "nothing")), "ok"),
                   TRUE)

\* leads that reach the timing stage, with every set of buying signals
TimingLeads ==
    {Validated(NewLead(Company(Name("civic trust", TRUE, FALSE), "government", None, "UEI1",
                               None, <<500>>, None, TRUE, <<>>),
                       {"sam.gov"}, SignalList(signals), {"government"})) :
        signals \in SUBSET BuyingSignals}

\* validation has returned one lead; a timing agent is registered or not
InitTiming ==
    /\ RLInit
    /\ agents \in {Stages, Stages \ {"timing"}}
    /\ config = DefaultConfig
    /\ faults = 0
    /\ prod = [p \in Producers |-> [state |-> "ok", leads_found |-> <<>>, rank |-> 0]]
    /\ \E l \in TimingLeads : lead = [id \in {<<"lead", 1>>} |-> l]
    /\ lists = [l \in {"raw_leads", "unique_leads", "enriched_leads", "validated_leads"} |->
                    << <<"lead", 1>> >>]
               @@ [timed_leads |-> <<>>, scored_leads |-> <<>>]
    /\ work = [s \in Stages |->
                  [id \in {<<"lead", 1>>} |-> IF s = "timing" THEN "none" ELSE "done"]]
    /\ results = [s \in Stages |->
                     IF s = "timing" THEN NoResult
                     ELSE Result(TRUE, << <<"lead", 1>> >>, None)]
    /\ pc = "timing"
    /\ st = Idle
    /\ pre = lead
    /\ coord_result = NoResult
    /\ wfpc = "coordinator"
    /\ stored = {}
    /\ wf_result = NoResult
    /\ escaped = FALSE

\* TimingAgent.execute is called once more on the list it was given (timing_agent.py
\* lines 50-79 hold nothing against it): once only, for leads that came unanalysed
TimingAgain ==
    /\ pc = "scoring" /\ st.stage = None
    /\ "timing" \in agents
    /\ \E id \in Range(lists.validated_leads) : pre[id].timing_score = <<>>
    /\ \E id \in Range(lists.validated_leads) : lead[id].timing_score # <<>>
    /\ pc' = "timing"
    /\ UNCHANGED <<rlvars, agents, config, faults, prod, lead, lists, st, pre, work, results,
                   coord_result, wfpc, stored, wf_result, escaped>>

NextTiming ==
    \/ StageSkip("timing")
    \/ StageBegin("timing")
    \/ TimingStart \/ TimingReturn \/ TimingRaise
    \/ StageSucceed \/ StageFail
    \/ TimingAgain
    \/ ScoreAndRank

SpecTiming == InitTiming /\ [][NextTiming]_vars

\* Searches by several asyncio tasks on one WebSearchTool; the pipeline is at rest
InitTool ==
    /\ LimiterInit /\ AdapterInit
    /\ api_key \in BOOLEAN
    /\ PLInit /\ agents = Stages
SpecTool == InitTool /\ [][NextTool]_vars

\* The rate limiter of one tool instance; the pipeline is at rest
InitRL == Init /\ agents = Stages
SpecRL == InitRL /\ [][NextRL]_vars

\* The same, with time passing and asyncio.sleep returning once its delay is over:
\* the event loop resumes a task whose sleep has ended
SpecRLFair ==
    InitRL /\ [][NextRL]_vars /\ WF_vars(Tick) /\ \A t \in Tasks : WF_vars(Wake(t))

(***************************************************************************)
(* Pipeline properties (Spec)                                              *)
(***************************************************************************)
\* the result a supporting agent's execute() returned with success=True
Succeeded(s) == results[s].returned /\ results[s].success

\* the result a supporting agent's execute() returned with success=False
Failed(s) == results[s].returned /\ ~results[s].success

\* positions of a list whose lead the validation stage disqualified
Disqualified(leads) == {i \in DOMAIN leads : lead[leads[i]].status = "disqualified"}

\* C2 as stated: every stage that succeeds returns a list as long as the one it was
\* given, whatever happened to the single leads.
C2_StageKeepsLength ==
    \A s \in Stages :
        Succeeded(s) => Len(results[s].leads_found) = Len(InputOf(s))

\* C2: the enrichment and timing stages return a list as long as the one they were
\* given; the validation stage returns its input without the leads it disqualified.
C2_StageLengths ==
    \A s \in Stages :
        Succeeded(s) =>
            Len(results[s].leads_found)
                = Len(InputOf(s))
                  - (IF s = "validation" THEN Cardinality(Disqualified(InputOf(s))) ELSE 0)

\* validation succeeded, kept a lead and disqualified another
C2_Witness ==
    /\ Succeeded("validation")
    /\ results["validation"].leads_found # <<>>
    /\ Len(results["validation"].leads_found) < Len(lists.enriched_leads)

\* C3 as stated: once a stage has reported success=False, the result of
\* MasterCoordinator.execute has success=False, an error message and no leads.
C3_StageFailureFailsRun ==
    \A s \in Stages :
        Failed(s) /\ coord_result.returned =>
            /\ ~coord_result.success
            /\ coord_result.error # None
            /\ coord_result.leads_found = <<>>

\* C3: once a stage has reported success=False, the coordinator carries on with the
\* list that stage was given; the failure is not passed on to the run's result.
C3_FailedStageFallsBack ==
    \A s \in Stages :
        Failed(s) => /\ lists[OutputOf(s)] = InputOf(s)
                     /\ pc # s
                     /\ pc = "done" => coord_result.returned

\* validation failed after disqualifying a lead, and the run returned success with
\* every lead validation had been given
C3_Witness ==
    /\ Failed("validation")
    /\ Len(results["validation"].leads_found) < Len(lists.enriched_leads)
    /\ coord_result.returned /\ coord_result.success
    /\ Len(coord_result.leads_found) = Len(lists.enriched_leads)

\* the leads of every producer that returned success
LeadsOfSuccessful == UNION {Range(prod[p].leads_found) : p \in {q \in Producers : prod[q].state = "ok"}}

\* C4: when the fan-out returns, whether or not a producer raised, the raw list holds
\* every lead of every producer that succeeded and nothing else, and the coordinator
\* goes on (to deduplication, or to a successful empty result): the fan-out does not fail.
C4_FanOutIsolatesFailures ==
    [][pc = "search" /\ pc' # "search" =>
          /\ Range(lists'.raw_leads) = LeadsOfSuccessful
          /\ Len(lists'.raw_leads) = Cardinality(LeadsOfSuccessful)
          /\ \/ pc' = "dedup"
             \/ pc' = "done" /\ coord_result'.returned /\ coord_result'.success]_vars

\* a producer raised, a sibling returned leads, and they are in the raw list
C4_Witness ==
    /\ pc # "search"
    /\ \E p \in Producers : prod[p].state = "raised"
    /\ \E q \in Producers :
          /\ prod[q].state = "ok" /\ prod[q].leads_found # <<>>
          /\ Range(prod[q].leads_found) \subseteq Range(lists.raw_leads)

\* C5 as stated: a lead whose processing raised inside the running stage is in the
\* stage's output exactly as it was when the stage was entered.
C5_FailedLeadUnmodified ==
    \A s \in Stages : \A id \in DOMAIN lead :
        st.stage = s /\ work[s][id] = "raised" =>
            /\ \E k \in DOMAIN st.out : st.out[k] = id
            /\ lead[id] = pre[id]


\* an AgentExecutionResult that is success=True with no error, or success=False with
\* an error string
WellFormed(r) == \/ r.success /\ r.error = None
                 \/ ~r.success /\ r.error # None

\* C6: no exception reaches the caller of MasterCoordinator.execute or of
\* LeadGenerationWorkflow.execute; each of them ends by returning a result that is
\* success=True with a lead list or success=False with an error string.
C6_ExecuteNeverRaises ==
    /\ ~escaped
    /\ coord_result.returned => WellFormed(coord_result)
    /\ wf_result.returned => WellFormed(wf_result)
    /\ pc = "done" => coord_result.returned
    /\ wfpc = "done" => wf_result.returned

\* the coordinator succeeded, the storage call raised, and the workflow's caller got
\* a success=False result with an error string
C6_Witness ==
    /\ wfpc = "done"
    /\ coord_result.success
    /\ wf_result.returned /\ ~wf_result.success /\ wf_result.error # None

\* some lead's unit of work of stage s has started
Started(s) == \E id \in LeadIds : work[s][id] # "none"

\* stage s has finished every lead of the list it was given (a coordinator built
\* without the agent of stage s has no such work to do)
AllFinished(s, leads) ==
    s \in agents => \A k \in DOMAIN leads : work[s][leads[k]] \in {"done", "raised"}

\* C7: no validation starts before enrichment has finished every lead, no timing
\* analysis starts before validation has finished every lead, and scoring starts
\* only after timing analysis has finished every lead.
C7_StagesStrictlyOrdered ==
    /\ Started("validation") => AllFinished("enrichment", lists.unique_leads)
    /\ Started("timing") => AllFinished("validation", lists.enriched_leads)
    /\ pc \in {"scoring", "done"} => AllFinished("timing", lists.validated_leads)

\* a run with all three agents scored two leads
C7_Witness ==
    /\ agents = Stages
    /\ pc = "done" /\ coord_result.success
    /\ Len(coord_result.leads_found) >= 2
    /\ \A s \in Stages : \A k \in 1..2 : work[s][coord_result.leads_found[k]] = "done"

\* leads whose unit of work of stage s is in progress
Running(s) == {id \in LeadIds : work[s][id] = "running"}

\* a lead of the running stage is suspended in its unit of work while another lead
\* of the same list has not been started
OneSuspendedOnePending ==
    /\ st.stage # None
    /\ Running(st.stage) # {}
    /\ \E k \in DOMAIN st.leads : work[st.stage][st.leads[k]] = "none"

C9_StatusOnlyMovesForward ==
    /\ [][\A id \in DOMAIN lead :
             /\ StatusRank(lead'[id].status) >= StatusRank(lead[id].status)
             /\ lead[id].status \in {"qualified", "disqualified"}
                   => lead'[id].status = lead[id].status]_vars
    /\ [](\A id \in DOMAIN lead :
             work["enrichment"][id] = "done" /\ work["validation"][id] = "none"
                 => lead[id].status = "enriching" /\ lead[id].is_enriched)

\* a lead went through enrichment and validation and ended QUALIFIED
C9_Witness ==
    \E id \in DOMAIN lead :
        /\ lead[id].status = "qualified"
        /\ lead[id].is_enriched
        /\ work["enrichment"][id] = "done" /\ work["validation"][id] = "done"

\* C10: when validate(lead) has returned, whatever it returned, the lead is
\* VALIDATING; QUALIFIED or DISQUALIFIED is set only by the step of execute that
\* follows, QUALIFIED exactly when validate returned true.
C10_ValidateLeavesValidating ==
    /\ [](st.stage = "validation" /\ st.unit = "returned"
             => lead[Cur].status = "validating")
    /\ [](\A id \in DOMAIN lead :
             lead[id].status \in {"qualified", "disqualified"}
                 => work["validation"][id] = "done")
    /\ [][st.unit = "returned" /\ st'.unit # "returned" =>
             lead'[Cur].status = (IF st.is_valid THEN "qualified" ELSE "disqualified")]_vars

\* validate returned false for a lead and execute then set it DISQUALIFIED
C10_Witness ==
    \E id \in DOMAIN lead :
        /\ lead[id].status = "disqualified"
        /\ lead[id].is_validated
        /\ work["validation"][id] = "done"


\* C35 as stated: with a validation agent configured, no DISQUALIFIED lead is in the
\* ranked list MasterCoordinator.execute returns, also when the validation stage
\* reported a failure after it had processed its leads.
C35_NoDisqualifiedLeadIsRanked ==
    "validation" \in agents /\ coord_result.returned /\ coord_result.success =>
        \A id \in Range(coord_result.leads_found) : lead[id].status # "disqualified"

\* list b holds leads of list a only and is no longer than a
Within(b, a) == Range(b) \subseteq Range(a) /\ Len(b) <= Len(a)

\* C36: every lead of the ranked list the coordinator returns is a lead deduplication
\* produced, is there once and has a score; a lead's score is assigned once, by the
\* scoring step, and never changed; after deduplication no Lead object is created, and
\* from the deduplicated list to the ranked list each list holds leads of the list
\* before it only and is no longer than it.
C36_RankedLeadsComeFromDedupScoredOnce ==
    /\ [](coord_result.returned /\ coord_result.success =>
             LET final == coord_result.leads_found
             IN /\ Range(final) \subseteq Range(lists.unique_leads)
                /\ Cardinality(Range(final)) = Len(final)
                /\ \A id \in Range(final) : lead[id].score # <<>>)
    /\ [](/\ Within(lists.unique_leads, lists.raw_leads)
          /\ Within(lists.enriched_leads, lists.unique_leads)
          /\ Within(lists.validated_leads, lists.enriched_leads)
          /\ Within(lists.timed_leads, lists.validated_leads)
          /\ Within(lists.scored_leads, lists.timed_leads))
    /\ [][/\ pc # "search" => DOMAIN lead' = DOMAIN lead
          /\ \A id \in DOMAIN lead :
                lead'[id].score # lead[id].score =>
                    /\ pc = "scoring"
                    /\ lead[id].score = <<>> /\ lead'[id].score # <<>>]_vars

\* deduplication produced two leads, validation dropped one, and the run returned the
\* other with its score
C36_Witness ==
    /\ coord_result.returned /\ coord_result.success
    /\ Len(lists.unique_leads) = 2
    /\ Len(lists.validated_leads) = 1
    /\ Len(coord_result.leads_found) = 1
    /\ \A id \in Range(coord_result.leads_found) : lead[id].score # <<>>
    /\ \E id \in Range(lists.unique_leads) : lead[id].score = <<>>

(***************************************************************************)
(* Ownership of Lead objects (Spec)                                        *)
(***************************************************************************)
\* the tasks that hold lead id for writing: the industry agent that built it, until
\* the gather has returned, and the per-lead units in progress on it
Holders(id) ==
    {p \in Producers : pc = "search" /\ id \in Range(prod[p].leads_found)}
        \cup {s \in Stages : work[s][id] = "running"}

\* C34: no Lead object is held by more than one running task. The industry agents
\* return disjoint sets of Lead objects, each as its agent built it; the merges of
\* deduplication and every per-lead unit run after all agents have finished; a list
\* given to a stage holds a Lead object once, and a Lead is in at most one unit.
C34_NoLeadSharedBetweenTasks ==
    /\ \A id \in LeadIds : Cardinality(Holders(id)) <= 1
    /\ pc = "search" =>
          \A p \in Producers : \A id \in Range(prod[p].leads_found) :
              lead[id].data_sources = SourceOf(p) /\ lead[id].tags = TagsOf(p)
    /\ pc # "search" => \A p \in Producers : prod[p].state # "running"
    /\ pc \in {"search", "dedup"} => \A s \in Stages : \A id \in LeadIds : work[s][id] = "none"
    /\ \A l \in {"unique_leads", "enriched_leads", "validated_leads", "timed_leads"} :
          Cardinality(Range(lists[l])) = Len(lists[l])
    /\ st.stage # None => Cardinality(Range(st.leads)) = Len(st.leads)

\* each industry agent returned a lead of its own, and a unit is in progress on one
\* of the two while nothing holds the other
C34_Witness ==
    /\ st.stage # None /\ Len(st.leads) = 2
    /\ \A p \in Producers : Len(prod[p].leads_found) = 1
    /\ Holders(st.leads[1]) = {st.stage}
    /\ Holders(st.leads[2]) = {}

(***************************************************************************)
(* Storage properties (Spec)                                               *)
(***************************************************************************)
\* this step is the gather over the store_lead calls coming back
StoreReturns == wfpc = "store" /\ wfpc' # "store"

\* C33: leads are stored in one step only, after ranking has given the run's result,
\* and the store_lead calls that fail change nothing: whichever of them fail, the
\* workflow returns the coordinator's success=True result with the ranked list as
\* it was, and no lead is touched.
C33_StoreFailuresLeaveResult ==
    /\ [][stored' # stored => StoreReturns]_vars
    /\ [](wfpc # "done" => stored = {})
    /\ [](wfpc = "store" =>
             /\ pc = "done"
             /\ coord_result.success
             /\ coord_result.leads_found = lists.scored_leads)
    /\ [][StoreReturns =>
             /\ wfpc' = "done"
             /\ stored' \subseteq Range(lists.scored_leads)
             /\ wf_result' = Result(TRUE, lists.scored_leads, None)
             /\ ~escaped'
             /\ UNCHANGED <<lead, lists, coord_result>>]_vars

\* of two ranked leads one was stored and the other's store_lead failed, and the
\* workflow returned success with both
C33_Witness ==
    /\ wfpc = "done"
    /\ wf_result.returned /\ wf_result.success
    /\ Len(wf_result.leads_found) = 2
    /\ wf_result.leads_found = lists.scored_leads
    /\ Cardinality(stored) = 1
    /\ faults >= 1

\* this step is store_leads failing to connect: the coordinator had returned ranked
\* leads and the workflow ends without the store_lead calls having been gathered
ConnectFails ==
    /\ wfpc = "coordinator" /\ wfpc' = "done"
    /\ coord_result.success /\ coord_result.leads_found # <<>>

\* C40 as stated: when the storage connection cannot be initialised at the end of a
\* run, LeadGenerationWorkflow.execute still returns success=True with the ranked list
\* the coordinator produced.
C40_ConnectFailureLeavesResult ==
    [][ConnectFails =>
          /\ wf_result'.success
          /\ wf_result'.leads_found = coord_result.leads_found]_vars

(***************************************************************************)
(* Deduplication properties (SpecDedup)                                    *)
(***************************************************************************)
\* the key of the lead at position i of the list given to _deduplicate_leads
KeyAt(i) == DedupKey(lead[lists.raw_leads[i]].company)

\* positions of the input leads that share the key of position i
GroupOf(i) == {j \in DOMAIN lists.raw_leads : KeyAt(j) = KeyAt(i)}

\* positions at which a key occurs for the first time
FirstSeen == {i \in DOMAIN lists.raw_leads : \A k \in 1..(i - 1) : KeyAt(k) # KeyAt(i)}

\* a lead without the three fields that the merge combines
OtherFields(l) ==
    [l EXCEPT !.data_sources = {}, !.buying_signals = <<>>, !.tags = {}]

\* C13: after dedup, the lead that survives for a group of input leads with one key is
\* the one seen first; its data_sources, buying_signals and tags are the set union of
\* the group's values, and every other field has the first-seen lead's value.
C13_SurvivorIsFirstSeenWithUnions ==
    [][pc = "dedup" =>
        \A i \in DOMAIN lists.raw_leads :
            LET u == lists.raw_leads[i]
                members == {lists.raw_leads[j] : j \in GroupOf(i)}
            IN IF i \in FirstSeen
               THEN /\ u \in Range(lists'.unique_leads)
                    /\ lead'[u].data_sources = UNION {lead[m].data_sources : m \in members}
                    /\ Range(lead'[u].buying_signals)
                           = UNION {Range(lead[m].buying_signals) : m \in members}
                    /\ lead'[u].tags = UNION {lead[m].tags : m \in members}
                    /\ OtherFields(lead'[u]) = OtherFields(lead[u])
               ELSE u \notin Range(lists'.unique_leads)]_vars

\* a group of leads with different lists and different names has been merged
C13_Witness ==
    /\ pc = "enrichment"
    /\ \E i \in FirstSeen : \E j \in GroupOf(i) :
          LET u == lists.raw_leads[i]
              m == lists.raw_leads[j]
          IN /\ u # m
             /\ pre[m].company.name # pre[u].company.name
             /\ pre[m].data_sources \ pre[u].data_sources # {}
             /\ pre[m].tags \ pre[u].tags # {}
             /\ Range(pre[m].buying_signals) \ Range(pre[u].buying_signals) # {}
             /\ lead[u].data_sources = pre[u].data_sources \cup pre[m].data_sources

\* the identifier that decides the key: the first one that is present, with its kind
KeyIdentifier(c) ==
    IF Truthy(c.fdic_cert_number) THEN <<"fdic", c.fdic_cert_number>>
    ELSE IF Truthy(c.sam_uei) THEN <<"sam", c.sam_uei>>
    ELSE IF Truthy(c.duns_number) THEN <<"duns", c.duns_number>>
    ELSE <<>>

\* C14: the dedup key is "fdic_" + certificate number if that is present, else "sam_" +
\* unique-entity identifier, else "duns_" + business identifier number, and the
\* lower-cased, trimmed name only when no identifier is present; so of two leads with
\* the same deciding identifier the later one is merged away whatever their names, and
\* two leads with one name and different identifiers have different keys and both
\* survive when they are the whole input.
C14_KeyPrecedence ==
    [][pc = "dedup" =>
        LET raw == lists.raw_leads
            co(i) == lead[raw[i]].company
        IN /\ \A i \in DOMAIN raw :
                 KeyAt(i) = (IF Truthy(co(i).fdic_cert_number)
                             THEN "fdic_" \o co(i).fdic_cert_number
                             ELSE IF Truthy(co(i).sam_uei) THEN "sam_" \o co(i).sam_uei
                             ELSE IF Truthy(co(i).duns_number)
                                  THEN "duns_" \o co(i).duns_number
                             ELSE Spelling([co(i).name EXCEPT !.upper = FALSE,
                                                               !.padded = FALSE]))
           /\ \A i, j \in DOMAIN raw :
                 i < j /\ KeyIdentifier(co(i)) # <<>>
                       /\ KeyIdentifier(co(i)) = KeyIdentifier(co(j))
                     => raw[j] \notin Range(lists'.unique_leads)
           /\ \A i, j \in DOMAIN raw :
                 i < j /\ Strip(Lower(co(i).name)) = Strip(Lower(co(j).name))
                       /\ KeyIdentifier(co(i)) # <<>> /\ KeyIdentifier(co(j)) # <<>>
                       /\ KeyIdentifier(co(i)) # KeyIdentifier(co(j))
                     => /\ KeyAt(i) # KeyAt(j)
                        /\ Len(raw) = 2 => lists'.unique_leads = raw]_vars

\* one certificate under two names gave one lead, one name under two certificates two
C14_Witness ==
    /\ pc = "enrichment"
    /\ Len(lists.raw_leads) = 3
    /\ LET a == pre[lists.raw_leads[1]].company
           b == pre[lists.raw_leads[2]].company
           c == pre[lists.raw_leads[3]].company
       IN /\ a.fdic_cert_number = "12345" /\ b.fdic_cert_number = "12345"
          /\ a.name # b.name
          /\ c.name = a.name /\ c.fdic_cert_number = "67890"
    /\ lists.unique_leads = <<lists.raw_leads[1], lists.raw_leads[3]>>

\* the p-th position, in input order, at which a key occurs for the first time
NthFirstSeen(p) == CHOOSE i \in FirstSeen : Cardinality({k \in FirstSeen : k <= i}) = p

\* C15: the output of dedup has exactly one lead for each distinct key of the input,
\* in the order in which the keys first occur; the empty list gives the empty list.
C15_OnePerKeyInFirstSeenOrder ==
    [][pc = "dedup" =>
        /\ Len(lists'.unique_leads) = Cardinality({KeyAt(i) : i \in DOMAIN lists.raw_leads})
        /\ \A p \in DOMAIN lists'.unique_leads :
              lists'.unique_leads[p] = lists.raw_leads[NthFirstSeen(p)]
        /\ \A p, q \in DOMAIN lists'.unique_leads :
              p # q => DedupKey(lead'[lists'.unique_leads[p]].company)
                          # DedupKey(lead'[lists'.unique_leads[q]].company)
        /\ lists.raw_leads = <<>> => lists'.unique_leads = <<>>]_vars

\* three leads, the first and the last with certificate 12345, gave the first two
C15_Witness ==
    /\ pc = "enrichment"
    /\ Len(lists.raw_leads) = 3
    /\ pre[lists.raw_leads[1]].company.fdic_cert_number = "12345"
    /\ pre[lists.raw_leads[3]].company.fdic_cert_number = "12345"
    /\ pre[lists.raw_leads[2]].company.fdic_cert_number # "12345"
    /\ lists.unique_leads = <<lists.raw_leads[1], lists.raw_leads[2]>>

\* C16: dedup applied to its own output returns the same leads with the same contents
\* of data_sources, buying_signals and tags.
C16_DedupIdempotent ==
    pc = "enrichment" =>
        LET again == DedupFold(lists.unique_leads, [unique |-> <<>>, heap |-> lead])
        IN /\ again.unique = lists.unique_leads
           /\ \A u \in Range(again.unique) :
                 /\ again.heap[u].data_sources = lead[u].data_sources
                 /\ Range(again.heap[u].buying_signals) = Range(lead[u].buying_signals)
                 /\ again.heap[u].tags = lead[u].tags
                 /\ OtherFields(again.heap[u]) = OtherFields(lead[u])

\* the output that dedup is applied to again holds two leads, one of them merged
C16_Witness ==
    /\ pc = "enrichment"
    /\ Len(lists.unique_leads) = 2
    /\ Len(lists.raw_leads) = 3
    /\ \E u \in Range(lists.unique_leads) : lead[u] # pre[u]


(***************************************************************************)
(* Validation properties (SpecValidate)                                    *)
(***************************************************************************)
\* the outcome validate() recorded for a check of a lead
Noted(l, check, outcome) == <<check, outcome>> \in Range(l.validation_notes)

\* C11: the validation stage marks a lead QUALIFIED exactly when industry fit and
\* company legitimacy both pass, whatever the size and technology checks say; industry
\* fit passes exactly when the industry is in the configured target set or is UNKNOWN.
C11_QualifiedIffHardChecksPass ==
    \A id \in DOMAIN lead :
        work["validation"][id] = "done" =>
            LET l == lead[id]
                fits == \/ l.company.industry \in config.target_industries
                        \/ l.company.industry = "unknown"
            IN /\ l.status \in {"qualified", "disqualified"}
               /\ Noted(l, "industry_fit", "PASS") <=> fits
               /\ l.status = "qualified"
                     <=> fits /\ Noted(l, "company_legitimacy", "PASS")
               /\ l.status = "qualified"
                     <=> Noted(l, "industry_fit", "PASS")
                            /\ Noted(l, "company_legitimacy", "PASS")

\* a lead that failed the size check was qualified, and a lead of an industry outside
\* the configured set was disqualified although the search found nothing against it
C11_Witness ==
    /\ \E id \in DOMAIN lead :
          /\ work["validation"][id] = "done"
          /\ Noted(lead[id], "size_fit", "FAIL")
          /\ lead[id].status = "qualified"
    /\ \E id \in DOMAIN lead :
          /\ work["validation"][id] = "done"
          /\ lead[id].company.industry \notin config.target_industries \cup {"unknown"}
          /\ Noted(lead[id], "company_legitimacy", "PASS")
          /\ lead[id].status = "disqualified"

\* C12 as stated: the legitimacy check fails only when the search results hold a
\* negative keyword or there are none, and it passes when the check itself errors,
\* also when the search call behind it fails (transport error, bad status, timeout).
C12_LegitimacyPassesOnSearchFailure ==
    st.stage = "validation" /\ st.unit = "returned" =>
        LET failed == Noted(lead[Cur], "company_legitimacy", "FAIL")
        IN /\ failed => \/ WebSearch(st.search) = <<>>
                         \/ Range(WebSearch(st.search)) \cap NegativeSnippets # {}
           /\ st.search = "null_snippet" => ~failed
           /\ st.search \in SearchFailures => ~failed

\* the checks of validate(), in the order of its dict
CheckNames == <<"industry_fit", "company_legitimacy", "size_fit", "technology_opportunity">>

\* what each check of validate() comes to for a company and the search made for it
Expected(c, call, check) ==
    CASE check = "industry_fit" ->
            c.industry \in config.target_industries \/ c.industry = "unknown"
      [] check = "company_legitimacy" ->
            \/ call = "null_snippet"
            \/ WebSearch(call) # <<>> /\ Range(WebSearch(call)) \cap NegativeSnippets = {}
      [] check = "size_fit" ->
            c.employee_count \in {<<>>, <<0>>} \/ c.employee_count[1] >= MinEmployeeCount
      [] check = "technology_opportunity" -> TRUE

\* C31: when validate(lead) has returned, true or false, the lead has is_validated set
\* and validation_notes holds, for each of the four checks, one entry: PASS if the
\* check passed and FAIL if it did not.
C31_ValidatedWithOneNotePerCheck ==
    st.stage = "validation" /\ st.unit = "returned" =>
        LET l == lead[Cur]
        IN /\ l.is_validated
           /\ \A k \in DOMAIN CheckNames :
                 LET check == CheckNames[k]
                     noted == {i \in DOMAIN l.validation_notes :
                                  l.validation_notes[i][1] = check}
                 IN /\ Cardinality(noted) = 1
                    /\ \A i \in noted :
                          l.validation_notes[i][2]
                              = (IF Expected(l.company, st.search, check)
                                 THEN "PASS" ELSE "FAIL")

\* validate returned false for a lead that fails industry fit and size fit, and the
\* lead is marked as validated
C31_Witness ==
    /\ st.stage = "validation" /\ st.unit = "returned"
    /\ ~st.is_valid
    /\ lead[Cur].is_validated
    /\ Noted(lead[Cur], "industry_fit", "FAIL")
    /\ Noted(lead[Cur], "size_fit", "FAIL")

\* C39 as stated: validate appends to validation_notes, so every note the lead held
\* before, and every explanatory note a check appended during this validation, is in
\* validation_notes when validate has returned.
C39_ValidationKeepsNotes ==
    st.stage = "validation" /\ st.unit = "returned" =>
        LET l == lead[Cur]
            res == LegitimacyOutcome(WebSearch(st.search))
        IN /\ Range(pre[Cur].validation_notes) \subseteq Range(l.validation_notes)
           /\ Range(LegitimacyNotes(res)) \subseteq Range(l.validation_notes)
           /\ Range(SizeNotes(l.company)) \subseteq Range(l.validation_notes)


(***************************************************************************)
(* Properties of the stages after deduplication (SpecRun)                  *)
(***************************************************************************)
\* the leads of a list have pairwise different dedup keys
DistinctKeys(leads) ==
    \A i, j \in DOMAIN leads :
        i # j => DedupKey(lead[leads[i]].company) # DedupKey(lead[leads[j]].company)

\* C17: no step of enrichment, validation, timing analysis, scoring or ranking changes
\* the dedup key of a lead, so every list after deduplication, the final one included,
\* holds leads with pairwise different keys.
C17_DedupKeyNeverChanges ==
    /\ [][\A id \in DOMAIN lead :
            DedupKey(lead'[id].company) = DedupKey(lead[id].company)]_vars
    /\ [](pc # "dedup" =>
            /\ DistinctKeys(lists.unique_leads) /\ DistinctKeys(lists.enriched_leads)
            /\ DistinctKeys(lists.validated_leads) /\ DistinctKeys(lists.timed_leads)
            /\ DistinctKeys(lists.scored_leads) /\ DistinctKeys(coord_result.leads_found))

\* the run returned two leads, one that enrichment gave a new size and head count and
\* one whose key is its name
C17_Witness ==
    /\ coord_result.returned
    /\ Len(coord_result.leads_found) = 2
    /\ \E id \in Range(coord_result.leads_found) :
          /\ lead[id].company.size = "51-250"
          /\ lead[id].company.employee_count = <<250>>
          /\ "clearbit" \in lead[id].data_sources
          /\ KeyIdentifier(lead[id].company) = <<>>
    /\ \E id \in Range(coord_result.leads_found) :
          /\ lead[id].company.technology_indicators # <<>>
          /\ lead[id].company.technology_indicators[1].legacy_systems


\* C30: a supporting agent given the empty list returns at once with success=True and
\* the empty list: it starts no per-lead work, makes no call to a tool and changes no
\* lead; deduplication and scoring-and-ranking of the empty list give the empty list.
C30_EmptyListPassesThrough ==
    [][ /\ \A stage \in Stages :
             (pc = stage /\ st.stage = None /\ stage \in agents /\ InputOf(stage) = <<>>) =>
                 /\ results'[stage] = Result(TRUE, <<>>, None)
                 /\ lists'[OutputOf(stage)] = <<>>
                 /\ pc' = PhaseAfter(stage)
                 /\ UNCHANGED <<lead, work, st, faults, rlvars, stored>>
        /\ (pc = "dedup" /\ lists.raw_leads = <<>>) =>
                 lists'.unique_leads = <<>> /\ lead' = lead
        /\ (pc = "scoring" /\ lists.timed_leads = <<>>) =>
                 /\ lists'.scored_leads = <<>>
                 /\ coord_result' = Result(TRUE, <<>>, None)
                 /\ lead' = lead
      ]_vars

\* the empty list went through deduplication, the three agents and the ranking
C30_Witness ==
    /\ pc = "done"
    /\ lists.raw_leads = <<>> /\ lists.scored_leads = <<>>
    /\ \A s \in Stages : results[s] = Result(TRUE, <<>>, None)
    /\ coord_result = Result(TRUE, <<>>, None)

(***************************************************************************)
(* Ranking properties (SpecRank)                                           *)
(***************************************************************************)
\* the position of a lead in the list that _score_and_rank_leads was given
PlaceIn(leads, id) == CHOOSE i \in DOMAIN leads : leads[i] = id

\* C18: ranking returns the leads it was given, each once, in non-increasing order of
\* overall_score, and leads with equal scores keep the order they came in.
C18_RankingIsStableDescendingPermutation ==
    pc = "done" =>
        LET given == lists.timed_leads
            ranked == lists.scored_leads
            overall(id) == lead[id].score[1].overall_score
        IN /\ coord_result.success /\ coord_result.leads_found = ranked
           /\ Len(ranked) = Len(given)
           /\ Range(ranked) = Range(given)
           /\ \A i, j \in DOMAIN ranked :
                 i < j => /\ ranked[i] # ranked[j]
                          /\ overall(ranked[i]) >= overall(ranked[j])
                          /\ overall(ranked[i]) = overall(ranked[j])
                                => PlaceIn(given, ranked[i]) < PlaceIn(given, ranked[j])

\* three leads were ranked: the order changed, and two of them have the same score
C18_Witness ==
    /\ pc = "done"
    /\ Len(lists.scored_leads) = 3
    /\ lists.scored_leads[1] = lists.timed_leads[3]
    /\ \E i, j \in DOMAIN lists.scored_leads :
          /\ i < j
          /\ lead[lists.scored_leads[i]].score[1].overall_score
                = lead[lists.scored_leads[j]].score[1].overall_score


\* C19: the stored overall_score is 0.40 fit_score + 0.35 intent_score + 0.25
\* timing_score, worked out on the stored, rounded part scores and rounded to two
\* decimals; the sum is never halfway between two hundredths.
C19_OverallIsWeightedSumOfStoredParts ==
    \A id \in DOMAIN lead :
        lead[id].score # <<>> =>
            LET sc == lead[id].score[1]
                sum == 40 * sc.fit_score + 35 * sc.intent_score + 25 * sc.timing_score
            IN /\ sum % 100 # 50
               /\ sc.overall_score = (sum + 50) \div 100

\* leads were scored whose fit_score had to be rounded, one down and one up
C19_Witness ==
    /\ pc = "done"
    /\ \E a, b \in Range(lists.scored_leads) :
          LET parts(id) == lead[id].score[1].industry_fit + lead[id].score[1].size_fit
                              + lead[id].score[1].technology_fit
          IN /\ parts(a) % 3 = 1 /\ 3 * lead[a].score[1].fit_score < parts(a)
             /\ parts(b) % 3 = 2 /\ 3 * lead[b].score[1].fit_score > parts(b)
             /\ lead[a].score[1].overall_score > 0

\* C20: every score that is computed (overall, fit, intent, timing, industry_fit,
\* size_fit, technology_fit, budget_likelihood) lies between 0 and 100 for every lead
\* that reaches scoring, so building the LeadScore never fails and the coordinator
\* returns its ranked list.
C20_ScoresInRange ==
    /\ pc = "scoring" =>
          \A id \in Range(lists.timed_leads) :
              \A f \in ScoreFields :
                  CalculateLeadScore(lead[id])[f] \in 0..10000
    /\ pc = "done" =>
          /\ coord_result.success /\ ~escaped
          /\ Range(coord_result.leads_found) = Range(lists.timed_leads)
          /\ \A id \in Range(lists.timed_leads) :
                /\ lead[id].score # <<>>
                /\ \A f \in ScoreFields : lead[id].score[1][f] \in 0..10000

\* a lead whose technology points add up to more than 100 and a lead whose signals
\* weigh more than 100 were scored
C20_Witness ==
    /\ pc = "done"
    /\ \E id \in Range(lists.scored_leads) :
          /\ TechnologyPoints(lead[id].company) > 100
          /\ lead[id].score[1].technology_fit = 10000
    /\ \E id \in Range(lists.scored_leads) :
          /\ 6 * IntentTotal(lead[id].buying_signals) > 500
          /\ lead[id].score[1].intent_score = 10000
          /\ lead[id].score[1].timing_score = 10000


(***************************************************************************)
(* Fan-out properties (Spec)                                               *)
(***************************************************************************)
\* the leads of the producers of a sequence that returned success, one after another
RECURSIVE LeadsInOrder(_)
LeadsInOrder(order) ==
    IF order = <<>> THEN <<>>
    ELSE (IF prod[Head(order)].state = "ok" THEN prod[Head(order)].leads_found ELSE <<>>)
         \o LeadsInOrder(Tail(order))

\* gather has returned leads and deduplication has not begun
FannedOut == pc = "dedup" /\ \A p \in Producers : prod[p].rank > 0

\* C28: the raw list is the concatenation of the lead lists of the producers that
\* succeeded, in the order of the coordinator's list of industry agents, whichever
\* of them finished first.
C28_RawLeadsInAgentOrder ==
    FannedOut => lists.raw_leads = LeadsInOrder(ProducerOrder)

\* the agent listed last finished first, and its lead still comes last
C28_Witness ==
    /\ FannedOut
    /\ prod[ProducerOrder[Len(ProducerOrder)]].rank = 1
    /\ \A p \in Producers : prod[p].state = "ok" /\ prod[p].leads_found # <<>>
    /\ lists.raw_leads[1] \in Range(prod[ProducerOrder[1]].leads_found)

\* C28 as stated: the raw list is the concatenation of the successful producers' lead
\* lists in the order in which the producers completed.
C28_RawLeadsInCompletionOrder ==
    FannedOut => lists.raw_leads = LeadsInOrder(CompletionOrder(ProducerOrder, prod))

\* the fan-out is over and no producer has returned success with a lead
NoProducerSucceeded ==
    /\ pc # "search"
    /\ \A p \in Producers : prod[p].state # "ok" \/ prod[p].leads_found = <<>>

\* C29: when no producer succeeds with a lead (each raises, reports failure or returns
\* no lead), the raw list is empty and MasterCoordinator.execute returns success=True
\* with no leads and no error, and neither deduplication nor any supporting agent nor
\* scoring has run: no list was filled, no stage returned a result, no lead was
\* worked on.
C29_NoLeadsShortCircuits ==
    NoProducerSucceeded =>
        /\ pc = "done"
        /\ coord_result = Result(TRUE, <<>>, None)
        /\ \A l \in DOMAIN lists : lists[l] = <<>>
        /\ \A s \in Stages : results[s] = NoResult /\ \A id \in DOMAIN work[s] : work[s][id] = "none"
        /\ st = Idle
        /\ ~escaped

\* one producer raised, the other returned no lead, and the run ended in success
C29_Witness ==
    /\ NoProducerSucceeded
    /\ \E p \in Producers : prod[p].state = "raised"
    /\ \E p \in Producers : prod[p].state = "ok"
    /\ coord_result.returned /\ coord_result.success

(***************************************************************************)
(* Scoring properties (SpecScore)                                          *)
(***************************************************************************)
\* the lead that was scored, and its LeadScore
ScoredLead == lead[<<"lead", 1>>]
SizeFit == ScoredLead.score[1].size_fit

\* C21: size_fit follows the employee count whenever one is present (5000 and more
\* gives 100, 1000 and more 80, 500 and more 60, 100 and more 40, every other present
\* count down to 0 gives 20); only with no count does it follow the size category
\* (Enterprise 100, Large 80, Medium 60, Small 30, another name 50), and it is 50
\* when neither is present.
C21_SizeFitFollowsPresentCount ==
    (pc = "done" /\ ScoredLead.score # <<>>) =>
        LET c == ScoredLead.company
        IN IF c.employee_count # <<>>
           THEN LET n == c.employee_count[1]
                IN SizeFit = 100 * (IF n >= 5000 THEN 100 ELSE IF n >= 1000 THEN 80
                                    ELSE IF n >= 500 THEN 60 ELSE IF n >= 100 THEN 40 ELSE 20)
           ELSE SizeFit = 100 * (CASE c.size = "Enterprise" -> 100
                                   [] c.size = "Large" -> 80
                                   [] c.size = "Medium" -> 60
                                   [] c.size = "Small" -> 30
                                   [] OTHER -> 50)

\* the distinct signals of the scored lead, and the sum of their weights
SignalsOn(l) == {l.buying_signals[i] : i \in 1..Len(l.buying_signals)}
RECURSIVE WeightSum(_)
WeightSum(S) ==
    IF S = {} THEN 0 ELSE LET x == CHOOSE y \in S : TRUE IN IntentWeight(x) + WeightSum(S \ {x})

\* the claimed intent score of a set of distinct signals, in hundredths of a point
ClaimedIntent(S) ==
    IF S = {} THEN 3000
    ELSE LET sum == WeightSum(S)
             boosted == IF Cardinality(S) > 2 THEN 120 * sum ELSE 100 * sum
         IN IF boosted < 10000 THEN boosted ELSE 10000

\* S has no more signals and no more weight than T
NoStrongerThan(S, T) ==
    Cardinality(S) <= Cardinality(T) /\ WeightSum(S) <= WeightSum(T)

C23_StoredTimingScoreIsUsed ==
    \A id \in DOMAIN lead :
        LET l == lead[id]
        IN /\ work["timing"][id] = "done" =>
                /\ l.timing_score # <<>>
                /\ l.timing_score[1] \in 0..500
                /\ l.urgency = GetUrgencyLevel(l.timing_score[1])
                /\ l.recommended_action = GetRecommendedAction(l.timing_score[1])
           /\ l.score # <<>> =>
                l.score[1].timing_score =
                    IF l.timing_score = <<>> THEN 5000 ELSE 20 * l.timing_score[1]

\* a lead that gained a signal in the timing stage was scored with its stored 70
C23_Witness ==
    \E id \in DOMAIN lead :
        /\ work["timing"][id] = "done"
        /\ Len(lead[id].buying_signals) > Len(pre[id].buying_signals)
        /\ lead[id].timing_score = <<350>>
        /\ lead[id].urgency = "VERY HIGH"
        /\ lead[id].score # <<>>
        /\ lead[id].score[1].timing_score = 7000

\* a list without duplicate entries
NoDuplicates(signals) == Cardinality(Range(signals)) = Len(signals)

\* C32: timing analysis only appends to buying_signals, and appends no signal that the
\* list holds already: a list without duplicates stays without duplicates, and an
\* analysis run again on a lead in which the detectors find what the lead already
\* holds adds no entry.
C32_TimingAddsNoPresentSignal ==
    /\ [][\A id \in DOMAIN lead :
             LET old == lead[id].buying_signals
                 new == lead'[id].buying_signals
             IN /\ Len(new) >= Len(old)
                /\ SubSeq(new, 1, Len(old)) = old
                /\ \A k \in (Len(old) + 1)..Len(new) :
                      /\ new[k] \notin Range(old)
                      /\ \A j \in (Len(old) + 1)..Len(new) : j # k => new[j] # new[k]
                /\ NoDuplicates(old) => NoDuplicates(new)]_vars
    /\ [](\A id \in DOMAIN lead : \A found \in SUBSET Detectors :
             found \subseteq Range(lead[id].buying_signals) =>
                 TimingDone(lead[id], found).buying_signals = lead[id].buying_signals)

\* a lead was analysed twice: the first analysis left it with a job posting and an
\* executive change, the second has returned and the list is as the first left it
C32_Witness ==
    \E id \in DOMAIN lead :
        /\ pc = "scoring"
        /\ work["timing"][id] = "done"
        /\ pre[id].timing_score # <<>>
        /\ Detectors \subseteq Range(pre[id].buying_signals)
        /\ lead[id].buying_signals = pre[id].buying_signals
        /\ NoDuplicates(lead[id].buying_signals)

(***************************************************************************)
(* Adapter properties (SpecTool)                                           *)
(***************************************************************************)
\* this step is a search() returning a value it found in the cache
HitReturned == reply' # reply /\ reply'.kind = "hit"

\* this step takes task t from the start of search(q) into _check_rate_limit
LimiterEntered(t, q) ==
    task[t].pc = "idle" /\ task'[t].pc \in {"sleeping", "request"} /\ task'[t].query = q

\* C24: a search whose key is in the cache and unexpired returns the cached value
\* without _check_rate_limit being invoked: request_times and the calls released stay
\* as they were, no task moves towards a request, no upstream request is counted.
C24_CacheHitConsumesNoBudget ==
    [][ /\ HitReturned =>
             /\ CacheGet(cache, reply'.query, clock) = <<reply'.value>>
             /\ UNCHANGED <<request_times, released, task, upstream, cache>>
        /\ \A t \in Tasks, q \in Queries :
             LimiterEntered(t, q) => CacheGet(cache, q, clock) = <<>>
      ]_vars

\* a cached result was returned after the only upstream request of the run
C24_Witness ==
    /\ reply.kind = "hit"
    /\ reply.value = <<"a regional bank">>
    /\ upstream = 1
    /\ Len(request_times) = 1

\* the key q was last stored less than cache_ttl ago
WithinTtl(q) == stores[q] # <<>> /\ clock < stores[q][1].time + CacheTtl

\* C25: expiry is per entry and checked on read: a read of a key returns the value
\* last stored under it exactly when it comes before the time of that store plus
\* cache_ttl, whenever the other entries were stored; at that time and later the read
\* finds nothing and the search goes on to the rate limiter.
C25_ExpiryIsPerEntryOnRead ==
    [][ /\ HitReturned =>
             /\ WithinTtl(reply'.query)
             /\ reply'.value = stores[reply'.query][1].value
        /\ \A t \in Tasks, q \in Queries : LimiterEntered(t, q) => ~WithinTtl(q)
      ]_vars

\* a key was read and returned at a time when another key, stored earlier, had expired
C25_Witness ==
    \E q1, q2 \in Queries :
        /\ stores[q1] # <<>> /\ stores[q2] # <<>>
        /\ stores[q1][1].time < stores[q2][1].time
        /\ clock >= stores[q1][1].time + CacheTtl
        /\ reply.kind = "hit" /\ reply.query = q2

\* C26: search() never raises past its boundary: after a transport error, a status
\* that is not 2xx, a timeout, a malformed response or an exception inside the rate
\* limiter the caller receives the empty list, as it does without an API key.
C26_SearchNeverRaises ==
    /\ reply.kind \in {None, "no_key", "hit", "fetched", "failed"}
    /\ reply.resp \in FailingResponses \cup {"limiter_error"} =>
          reply.kind = "failed" /\ reply.value = <<>>
    /\ reply.kind = "no_key" => reply.value = <<>>

\* a request timed out after an earlier search had been answered from upstream
C26_Witness ==
    /\ reply.resp = "timeout"
    /\ reply.kind = "failed"
    /\ upstream > 1

\* this step is task t's upstream request coming back
Responded(t) == task[t].pc = "request" /\ task'[t].pc # "request"

\* C38: a request that fails leaves the cache as it was, so a search that would have
\* gone upstream before still does; a request that succeeds caches what it returns,
\* the empty list of a response without results included, and until that entry
\* expires a read of the key gives the value stored.
C38_OnlySuccessIsCached ==
    /\ [][\A t \in Tasks : Responded(t) =>
             IF reply'.resp \in FailingResponses
             THEN /\ reply'.value = <<>>
                  /\ cache' = cache
                  /\ \A q \in Queries : CacheGet(cache', q, clock') = CacheGet(cache, q, clock)
             ELSE /\ reply'.value = WebSearch(reply'.resp)
                  /\ CacheGet(cache', reply'.query, clock') = <<reply'.value>>]_vars
    /\ [](\A q \in Queries :
             WithinTtl(q) => CacheGet(cache, q, clock) = <<stores[q][1].value>>)
    /\ [](\A q \in Queries : stores[q] = <<>> => CacheGet(cache, q, clock) = <<>>)

\* a request has just failed and its key is not in the cache, while the empty result
\* of an earlier successful request is in the cache, where a read finds it
C38_Witness ==
    \E q1, q2 \in Queries :
        /\ reply.kind = "failed" /\ reply.resp \in FailingResponses /\ reply.query = q1
        /\ CacheGet(cache, q1, clock) = <<>>
        /\ stores[q2] # <<>> /\ stores[q2][1].value = <<>>
        /\ CacheGet(cache, q2, clock) = << <<>> >>
        /\ upstream >= 2

ReleasedIn(tau) ==
    Cardinality({j \in DOMAIN released : released[j] > tau - Window /\ released[j] <= tau})

\* entries of a list of timestamps that are younger than 60 seconds at time now
Young(times, now) == {i \in DOMAIN times : times[i] > now - Window}

\* C37 as stated: the timestamp a call leaves in request_times is the time at which it
\* is released to the upstream, after any wait, and request_times never holds more
\* than rate_limit entries younger than 60 seconds.
C37_RecordedAtRelease ==
    [][Len(released') > Len(released) =>
          /\ request_times'[Len(request_times')] = released'[Len(released')]
          /\ Cardinality(Young(request_times', clock')) <= RateLimit]_vars

\* C1: whatever the sequence and interleaving of calls, no rolling 60-second window
\* holds more released calls than rate_limit. A window holds the most calls when it
\* ends at a release, so the windows ending at each release are the ones to look at.
C1_WindowNeverExceedsLimit ==
    \A i \in DOMAIN released : ReleasedIn(released[i]) <= RateLimit

====
